---- MODULE Spec2Model ----
(***************************************************************************)
(* Model of the lellostore backend: the upload pipeline                    *)
(* (services/upload.rs), the artifact store (services/storage.rs), the     *)
(* catalog store (db/mod.rs) and the admin delete handlers                 *)
(* (api/handlers.rs), run as concurrent request tasks over one filesystem  *)
(* tree and one database.                                                  *)
(*                                                                         *)
(* Option<T> is a sequence of length at most one: None is << >> and        *)
(* Some(x) is <<x>>.  Strings that the code inspects character by          *)
(* character (package names, file names) are sequences of one-character    *)
(* strings; byte vectors are sequences of numbers.                         *)
(***************************************************************************)
EXTENDS Integers, Sequences, FiniteSets, TLC

\* ---------------------------------------------------------------- bounds
NumUploads == 2     \* concurrent process_upload requests
NumDeletes == 1     \* concurrent admin delete requests
NumUpdates == 1     \* concurrent admin update requests
MaxFaults == 1      \* database / icon-write failures injected in one run
MaxSize == 5        \* the configured upload size ceiling, in bytes
MaxFileSize == 4    \* the largest file served, in bytes
U64Bits == 16       \* the width u64 is scaled to

Uploaders == 1..NumUploads
Deleters == {100 + i : i \in 1..NumDeletes}
Updaters == {200 + i : i \in 1..NumUpdates}
Tasks == Uploaders \cup Deleters \cup Updaters

None == << >>
Some(x) == <<x>>

\* ------------------------------------------------------ the value domains
PkgA == <<"a", ".", "b">>
PkgBad == <<"n", "o">>
PackageNames == {PkgA, PkgBad}
VersionCodes == {7, 8}
IconPng == <<137, 80>>

max_size == MaxSize

\* ----------------------------------------------------- strings and bytes
Contains(s, c) == \E i \in 1..Len(s) : s[i] = c

ContainsDotDot(s) ==
    \E i \in 1..(Len(s) - 1) : SubSeq(s, i, i + 1) = <<".", ".">>

EndsWith(s, suffix) ==
    /\ Len(s) >= Len(suffix)
    /\ SubSeq(s, Len(s) - Len(suffix) + 1, Len(s)) = suffix

ToLowerChar(c) ==
    CASE c = "A" -> "a"
      [] c = "B" -> "b"
      [] c = "K" -> "k"
      [] c = "P" -> "p"
      [] c = "X" -> "x"
      [] OTHER -> c

ToLowercase(s) == [i \in 1..Len(s) |-> ToLowerChar(s[i])]

Zeros(n) == [i \in 1..n |-> 0]

\* StorageService::calculate_sha256: a digest of the bytes; equal bytes give
\* equal digests and, on the byte vectors of this model, different bytes give
\* different digests.
RECURSIVE Sha256Fold(_, _)
Sha256Fold(h, data) ==
    IF data = << >> THEN h
    ELSE Sha256Fold((h * 257 + Head(data) + 1) % 8388593, Tail(data))

calculate_sha256(data) == Sha256Fold(7, data)

\* ------------------------------------------------- services/storage.rs
\* Mutant of validate_package_name: a name of 255 bytes is too long.
validate_package_name_short(name) ==
    IF Contains(name, "/") \/ Contains(name, "\\") \/ ContainsDotDot(name)
    THEN FALSE
    ELSE IF Contains(name, "NUL") THEN FALSE
    ELSE IF name = << >> \/ Len(name) >= 255 THEN FALSE
    ELSE IF ~Contains(name, ".") THEN FALSE
    ELSE TRUE

\* validate_package_name: TRUE when the name is accepted.
validate_package_name(name) ==
    IF Contains(name, "/") \/ Contains(name, "\\") \/ ContainsDotDot(name)
    THEN FALSE
    ELSE IF Contains(name, "NUL") THEN FALSE
    ELSE IF name = << >> \/ Len(name) > 255 THEN FALSE
    ELSE IF ~Contains(name, ".") THEN FALSE
    ELSE TRUE

\* The relative keys save_apk and save_icon return, which are also the paths
\* under the storage root.
ApkPath(package_name, version_code) == <<"apks", package_name, version_code>>
IconPath(package_name) == <<"icons", package_name>>

ApkPaths == {ApkPath(p, vc) : p \in PackageNames, vc \in VersionCodes}
IconPaths == {IconPath(p) : p \in PackageNames}

\* ------------------------------------------- the external tools, as functions
\* The zip reader (ZipArchive::new and file_names): byte 3 of a container of
\* this model selects its listing; any other byte is not a readable archive.
ZipFileNames(data) ==
    CASE data[3] = 1 -> Some({"AndroidManifest.xml"})
      [] data[3] = 2 -> Some({"BundleConfig.pb"})
      [] data[3] = 3 -> Some({"AndroidManifest.xml", "BundleConfig.pb"})
      [] data[3] = 4 -> Some({})
      [] OTHER -> None

\* ApkParser::parse: the inspection tool's answer for an APK; byte 4 of a
\* container selects its badging, 0 is an APK the tool rejects.
Badging(package_name, version_code, icon_data) ==
    [package_name |-> package_name, version_code |-> version_code,
     version_name |-> <<"1", ".", "2">>, min_sdk |-> 24,
     app_name |-> <<"A", "c", "m", "e">>, icon_data |-> icon_data]

\* The icon the badging of an APK names: "none" when it names no icon,
\* "image" when the entry is an image, "broken" when it cannot be decoded.
IconEntry(apk_data) ==
    CASE apk_data[4] \in {2, 3} -> "image"
      [] apk_data[4] = 4 -> "broken"
      [] OTHER -> "none"

\* ApkParser::extract_icon: the icon as a PNG, or an error.
extract_icon(apk_data) ==
    IF IconEntry(apk_data) = "image" THEN [ok |-> TRUE, data |-> IconPng]
    ELSE [ok |-> FALSE, data |-> << >>]

\* Mutant of ApkParserParse: a failed icon extraction fails the inspection.
ApkParserParse_icon_fatal(apk_data) ==
    LET icon_data == IF IconEntry(apk_data) # "none"
                     THEN Some(extract_icon(apk_data).data) ELSE None
    IN IF IconEntry(apk_data) # "none" /\ ~extract_icon(apk_data).ok THEN None
       ELSE CASE apk_data[4] \in {1, 2} -> Some(Badging(PkgA, 7, icon_data))
              [] apk_data[4] \in {3, 4} -> Some(Badging(PkgA, 8, icon_data))
              [] apk_data[4] = 5 -> Some(Badging(PkgBad, 7, icon_data))
              [] OTHER -> None

\* ApkParser::parse: an icon that cannot be extracted is no icon.
ApkParserParse(apk_data) ==
    LET icon_data == IF IconEntry(apk_data) # "none"
                        /\ extract_icon(apk_data).ok
                     THEN Some(extract_icon(apk_data).data) ELSE None
    IN CASE apk_data[4] \in {1, 2} -> Some(Badging(PkgA, 7, icon_data))
         [] apk_data[4] \in {3, 4} -> Some(Badging(PkgA, 8, icon_data))
         [] apk_data[4] = 5 -> Some(Badging(PkgBad, 7, icon_data))
         [] OTHER -> None

\* The error of AabConverter::convert: is_valid_aab wants BundleConfig.pb in
\* the archive, and the bundle tool fails on a bundle whose byte 4 is 0.
ConvertError(data) ==
    IF ZipFileNames(data) = None THEN Some("AabError(InvalidAab)")
    ELSE IF "BundleConfig.pb" \notin ZipFileNames(data)[1]
         THEN Some("AabError(InvalidAab)")
    ELSE IF data[4] = 0 THEN Some("AabError(ConversionFailed)")
    ELSE None

\* AabConverter::convert followed by the read of universal.apk: the universal
\* APK of a bundle, or None when the conversion fails.
ConverterConvert(data) ==
    IF ConvertError(data) # None THEN None
    ELSE Some(<<80, 75, 1, data[4]>>)

\* ------------------------------------------------- services/upload.rs
\* Mutant of detect_file_type: the manifest is looked for before the bundle
\* configuration.
detect_file_type_manifest_first(data, filename) ==
    IF Len(data) < 4 \/ SubSeq(data, 1, 2) # <<80, 75>> THEN "Unknown"
    ELSE LET archive == ZipFileNames(data) IN
         IF archive = None THEN "Unknown"
         ELSE LET lower == ToLowercase(filename) IN
              IF "AndroidManifest.xml" \in archive[1] THEN "Apk"
              ELSE IF "BundleConfig.pb" \in archive[1] THEN "Aab"
              ELSE IF EndsWith(lower, <<".", "a", "p", "k">>) THEN "Apk"
              ELSE IF EndsWith(lower, <<".", "a", "a", "b">>) THEN "Aab"
              ELSE "Unknown"

detect_file_type(data, filename) ==
    IF Len(data) < 4 \/ SubSeq(data, 1, 2) # <<80, 75>> THEN "Unknown"
    ELSE LET archive == ZipFileNames(data) IN
         IF archive = None THEN "Unknown"
         ELSE LET has_bundle_config == "BundleConfig.pb" \in archive[1]
                  has_manifest == "AndroidManifest.xml" \in archive[1]
                  lower == ToLowercase(filename)
              IN IF has_bundle_config THEN "Aab"
                 ELSE IF has_manifest THEN "Apk"
                 ELSE IF EndsWith(lower, <<".", "a", "p", "k">>) THEN "Apk"
                 ELSE IF EndsWith(lower, <<".", "a", "a", "b">>) THEN "Aab"
                 ELSE "Unknown"

\* The arguments of process_upload this model submits.
Container(listing, badging, len) == <<80, 75, listing, badging>> \o Zeros(len - 4)

NameApk == <<"x", ".", "a", "p", "k">>
NameAab == <<"X", ".", "A", "A", "B">>
NameTxt == <<"x", ".", "t", "x", "t">>

Upload(file_name, data, override_name, override_description) ==
    [file_name |-> file_name, data |-> data,
     override_name |-> override_name,
     override_description |-> override_description]

UploadInputs ==
    {Upload(NameApk, Container(1, b, 4), None, None) : b \in {0, 1, 2, 3, 5}}
    \cup {Upload(NameApk, Container(1, 1, max_size), None, None),
          Upload(NameApk, Container(1, 4, max_size), Some(<<"N">>), Some(<<"D">>)),
          Upload(NameApk, Container(1, 1, max_size + 1), None, None),
          Upload(NameAab, Container(2, 2, 4), None, None),
          Upload(NameAab, Container(3, 0, 4), None, None),
          Upload(NameAab, Container(4, 1, 4), None, None),
          Upload(NameTxt, Container(4, 1, 4), None, None),
          Upload(NameTxt, <<1, 2, 3, 4>>, None, None)}

\* -------------------------------------------------------------- state
VARIABLES
    apps,            \* table apps: package_name -> Option(row)
    app_versions,    \* table app_versions: a set of rows
    apk_files,       \* apks/<package>/<version_code>.apk -> Option(bytes)
    apk_dirs,        \* the directories apks/<package>/ that exist
    icon_files,      \* icons/<package>.png -> Option(bytes)
    temp_dirs,       \* the directories temp/<uuid>/ that exist, by owning task
    aab_converter,   \* UploadService.aab_converter is Some
    pc,              \* where each request task stands
    upl,             \* the locals of each process_upload call
    del,             \* the locals of each admin delete request
    result,          \* what each finished request returned
    convert_calls,   \* the uploads that invoked the bundle converter
    faults,          \* failures injected so far
    dl,              \* the download requests: the file served, the build
                     \* profile and the responses given so far
    auth,            \* how far each admin request got through the auth layer
    upd,             \* the locals of each admin update request
    storage_call,    \* the last direct call of a StorageService operation
    aapt2            \* the last manifest inspected and what the parser made
                     \* of the tool's output

\* What the download, update and auth handlers never write.
fixed_store == <<aab_converter, storage_call, aapt2>>

\* What the upload and delete handlers never write.
fixed == <<aab_converter, dl, auth, upd, storage_call, aapt2>>
db == <<apps, app_versions>>
fs == <<apk_files, apk_dirs, icon_files>>
vars == <<apps, app_versions, apk_files, apk_dirs, icon_files, temp_dirs,
          aab_converter, pc, upl, del, result, convert_calls, faults, dl, auth, upd,
          storage_call, aapt2>>

NoLocals ==
    [input |-> None, apk_data |-> None, metadata |-> None,
     is_new_app |-> None, icon_path |-> None]

NoTarget == [op |-> "none", package_name |-> PkgA, version_code |-> 0,
             is_last_version |-> FALSE]

NoResult == [kind |-> "None"]

NoUpdate == [package_name |-> PkgA, name |-> None, description |-> None]

\* The stages of a request in the auth layer; status is the HTTP status of
\* a rejection.
NotAuthenticated ==
    [stage |-> "new", is_admin |-> FALSE, status |-> 0,
     authorization |-> None, jwks_reachable |-> TRUE]

Admitted ==
    [stage |-> "admitted", is_admin |-> TRUE, status |-> 0,
     authorization |-> Some(<<"B", "e", "a", "r", "e", "r", " ", "A">>),
     jwks_reachable |-> TRUE]

NoDownload == [file |-> None, release |-> TRUE, served |-> << >>]

NoStorageCall ==
    [op |-> "none", package_name |-> << >>, version_code |-> 0, ok |-> TRUE,
     err |-> None]

InitStore ==
    /\ apps = [p \in PackageNames |-> None]
    /\ app_versions = {}
    /\ apk_files = [f \in ApkPaths |-> None]
    /\ apk_dirs = {}
    /\ icon_files = [f \in IconPaths |-> None]
    /\ temp_dirs = {}
    /\ aab_converter \in BOOLEAN
    /\ pc = [t \in Tasks |-> "idle"]
    /\ upl = [t \in Uploaders |-> NoLocals]
    /\ del = [t \in Deleters |-> NoTarget]
    /\ upd = [t \in Updaters |-> NoUpdate]
    /\ result = [t \in Tasks |-> NoResult]
    /\ convert_calls = {}
    /\ faults = 0
    /\ storage_call = NoStorageCall
    /\ aapt2 = [manifest |-> None, parsed |-> None]

\* The requests that reach the handlers: each carries an admin's token.
Init == InitStore /\ dl = NoDownload /\ auth = [t \in Tasks |-> Admitted]

\* ------------------------------------------------------------ db/mod.rs
get_app(package_name) == apps[package_name]

\* SELECT * FROM app_versions WHERE package_name = ?
\* ORDER BY version_code DESC LIMIT 1
get_latest_version(versions, package_name) ==
    LET rows == {v \in versions : v.package_name = package_name} IN
    IF rows = {} THEN None
    ELSE Some(CHOOSE v \in rows :
                 \A w \in rows : w.version_code <= v.version_code)

get_app_versions(package_name) ==
    {v \in app_versions : v.package_name = package_name}

\* Mutant of version_exists: the count is compared with 1 instead of 0.
version_exists_off_by_one(package_name, version_code) ==
    Cardinality({v \in app_versions : /\ v.package_name = package_name
                                      /\ v.version_code = version_code}) > 1

version_exists(package_name, version_code) ==
    Cardinality({v \in app_versions : /\ v.package_name = package_name
                                      /\ v.version_code = version_code}) > 0

\* Mutant of delete_app_version: the WHERE clause lacks the version_code.
delete_app_version_whole_package(versions, package_name, version_code) ==
    {v \in versions : v.package_name # package_name}

\* DELETE FROM app_versions WHERE package_name = ? AND version_code = ?
delete_app_version(versions, package_name, version_code) ==
    {v \in versions : ~(v.package_name = package_name
                        /\ v.version_code = version_code)}

\* Mutant of delete_app: the versions do not go with the app.
delete_app_no_cascade(tables, package_name) ==
    [apps |-> [tables.apps EXCEPT ![package_name] = None],
     versions |-> tables.versions]

\* DELETE FROM apps WHERE package_name = ?; the versions go by CASCADE.
delete_app(tables, package_name) ==
    [apps |-> [tables.apps EXCEPT ![package_name] = None],
     versions |-> {v \in tables.versions : v.package_name # package_name}]

\* The transaction of update_database: the tables it sees and whether every
\* statement so far succeeded.
begin == [ok |-> TRUE, apps |-> apps, versions |-> app_versions]

\* INSERT INTO apps: package_name is the key of the table.  updated_at
\* counts the statements that have set the column since the insert: each
\* datetime('now') is a later instant than the one before.
insert_app_tx(tx, package_name, name, description, icon_path) ==
    IF ~tx.ok THEN tx
    ELSE IF tx.apps[package_name] # None THEN [tx EXCEPT !.ok = FALSE]
    ELSE [tx EXCEPT !.apps[package_name] =
              Some([name |-> name, description |-> description,
                    icon_path |-> icon_path, updated_at |-> 0])]

\* UPDATE apps SET <the supplied fields>, updated_at = datetime('now')
\* WHERE package_name = ?, as db::update_app builds it: no statement at
\* all when no field is supplied.
update_app_tx(tx, package_name, name, description, icon_path) ==
    IF ~tx.ok THEN tx
    ELSE IF name = None /\ description = None /\ icon_path = None THEN tx
    ELSE IF tx.apps[package_name] = None THEN tx
    ELSE LET old == tx.apps[package_name][1] IN
         [tx EXCEPT !.apps[package_name] =
              Some([name |-> IF name # None THEN name[1] ELSE old.name,
                    description |-> IF description # None THEN description
                                    ELSE old.description,
                    icon_path |-> IF icon_path # None THEN icon_path
                                  ELSE old.icon_path,
                    updated_at |-> old.updated_at + 1])]

\* INSERT INTO app_versions: (package_name, version_code) is unique and
\* package_name references apps.
insert_app_version_tx(tx, package_name, version_code, version_name, apk_path, size, sha256, min_sdk) ==
    IF ~tx.ok THEN tx
    ELSE IF \E v \in tx.versions : /\ v.package_name = package_name
                                   /\ v.version_code = version_code
    THEN [tx EXCEPT !.ok = FALSE]
    ELSE IF tx.apps[package_name] = None THEN [tx EXCEPT !.ok = FALSE]
    ELSE [tx EXCEPT !.versions = @ \cup
              {[package_name |-> package_name, version_code |-> version_code,
                version_name |-> version_name, apk_path |-> apk_path,
                size |-> size, sha256 |-> sha256, min_sdk |-> min_sdk]}]

\* ------------------------------------------------- services/storage.rs
\* The filesystem operations, as functions from the tree to the tree.
Tree == [apk_files |-> apk_files, apk_dirs |-> apk_dirs, icon_files |-> icon_files]

DirIsEmpty(tree, package_name) ==
    \A f \in ApkPaths : f[2] = package_name => tree.apk_files[f] = None

save_apk(tree, package_name, version_code, data) ==
    IF ~validate_package_name(package_name)
    THEN [ok |-> FALSE, tree |-> tree, path |-> None]
    ELSE [ok |-> TRUE,
          tree |-> [tree EXCEPT
                      !.apk_dirs = @ \cup {package_name},
                      !.apk_files[ApkPath(package_name, version_code)] = Some(data)],
          path |-> Some(ApkPath(package_name, version_code))]

save_icon(tree, package_name, data) ==
    IF ~validate_package_name(package_name)
    THEN [ok |-> FALSE, tree |-> tree, path |-> None]
    ELSE [ok |-> TRUE,
          tree |-> [tree EXCEPT !.icon_files[IconPath(package_name)] = Some(data)],
          path |-> Some(IconPath(package_name))]

delete_apk(tree, package_name, version_code) ==
    IF ~validate_package_name(package_name) THEN [ok |-> FALSE, tree |-> tree]
    ELSE LET removed == [tree EXCEPT
                           !.apk_files[ApkPath(package_name, version_code)] = None]
         IN [ok |-> TRUE,
             tree |-> IF package_name \in removed.apk_dirs
                         /\ DirIsEmpty(removed, package_name)
                      THEN [removed EXCEPT !.apk_dirs = @ \ {package_name}]
                      ELSE removed]

delete_icon(tree, package_name) ==
    IF ~validate_package_name(package_name) THEN [ok |-> FALSE, tree |-> tree]
    ELSE [ok |-> TRUE,
          tree |-> [tree EXCEPT !.icon_files[IconPath(package_name)] = None]]

delete_package(tree, package_name) ==
    IF ~validate_package_name(package_name) THEN [ok |-> FALSE, tree |-> tree]
    ELSE LET removed ==
                 [tree EXCEPT
                    !.apk_dirs = @ \ {package_name},
                    !.apk_files = [f \in ApkPaths |->
                                     IF f[2] = package_name THEN None ELSE @[f]]]
         IN delete_icon(removed, package_name)

WriteTree(tree) ==
    /\ apk_files' = tree.apk_files
    /\ apk_dirs' = tree.apk_dirs
    /\ icon_files' = tree.icon_files

\* create_temp_dir: temp/<uuid v4>/, a name no other task holds.
create_temp_dir(t) == temp_dirs \cup {t}

\* Mutant of DropTempDir: the directory is left behind.
DropTempDir_forgotten(t) == temp_dirs

\* TempDir::drop: remove_dir_all of the task's directory.
DropTempDir(t) == temp_dirs \ {t}

\* ------------------------------------ services/upload.rs: process_upload
Err(kind) == [kind |-> kind]

\* Mutant of size_gate: an input of exactly max_size is rejected too.
size_gate_inclusive(size) == size >= max_size

\* Step 1: the size gate.
size_gate(size) == size > max_size

\* Mutant of materialize: the converter is used without testing its absence.
materialize_unchecked(file_type, data) ==
    CASE file_type = "Apk" ->
           [err |-> None, apk_data |-> Some(data), converted |-> FALSE]
      [] file_type = "Aab" ->
           LET apk == ConverterConvert(data) IN
           [err |-> ConvertError(data),
            apk_data |-> apk, converted |-> TRUE]
      [] OTHER ->
           [err |-> Some("InvalidFileType"), apk_data |-> None,
            converted |-> FALSE]

\* Step 4: the APK bytes of the input.  err is the error the step returns,
\* converted tells whether the converter was invoked.
materialize(file_type, data) ==
    CASE file_type = "Apk" ->
           [err |-> None, apk_data |-> Some(data), converted |-> FALSE]
      [] file_type = "Aab" ->
           IF ~aab_converter
           THEN [err |-> Some("AabNotSupported"), apk_data |-> None,
                 converted |-> FALSE]
           ELSE LET apk == ConverterConvert(data) IN
                [err |-> ConvertError(data),
                 apk_data |-> apk, converted |-> TRUE]
      [] OTHER ->
           [err |-> Some("InvalidFileType"), apk_data |-> None,
            converted |-> FALSE]

\* The return of process_upload: the temp directory is dropped with the call.
Return(t, r) ==
    /\ pc' = [pc EXCEPT ![t] = "done"]
    /\ result' = [result EXCEPT ![t] = r]
    /\ temp_dirs' = DropTempDir(t)

process_upload_begin(t, inputs) ==
    /\ pc[t] = "idle"
    /\ auth[t].stage = "admitted"
    /\ \E inp \in inputs :
         /\ upl' = [upl EXCEPT ![t].input = Some(inp)]
         /\ IF size_gate(Len(inp.data))
            THEN /\ pc' = [pc EXCEPT ![t] = "done"]
                 /\ result' = [result EXCEPT ![t] =
                        [kind |-> "FileTooLarge", max |-> max_size,
                         actual |-> Len(inp.data)]]
                 /\ UNCHANGED temp_dirs
            ELSE /\ pc' = [pc EXCEPT ![t] = "created"]
                 /\ temp_dirs' = create_temp_dir(t)
                 /\ UNCHANGED result
    /\ UNCHANGED <<db, fs, fixed, del, convert_calls, faults>>

Upload_Start(t) == process_upload_begin(t, UploadInputs)

\* Steps 2 and 4 to 6: type detection, conversion, the copy in the temp
\* directory and the inspection; all of it local to the call.
Upload_Inspect(t) ==
    /\ pc[t] = "created"
    /\ LET inp == upl[t].input[1]
           file_type == detect_file_type(inp.data, inp.file_name)
           m == materialize(file_type, inp.data)
           metadata == IF m.err = None THEN ApkParserParse(m.apk_data[1]) ELSE None
       IN /\ convert_calls' = IF m.converted THEN convert_calls \cup {t}
                              ELSE convert_calls
          /\ IF m.err # None
             THEN Return(t, Err(m.err[1])) /\ UNCHANGED upl
             ELSE IF metadata = None
             THEN Return(t, Err("ApkError")) /\ UNCHANGED upl
             ELSE /\ upl' = [upl EXCEPT ![t].apk_data = m.apk_data,
                                        ![t].metadata = metadata]
                  /\ pc' = [pc EXCEPT ![t] = "check"]
                  /\ UNCHANGED <<result, temp_dirs>>
    /\ UNCHANGED <<db, fs, fixed, del, faults>>

\* Step 7: the conflict check.
Upload_CheckVersion(t) ==
    /\ pc[t] = "check"
    /\ LET m == upl[t].metadata[1] IN
       IF version_exists(m.package_name, m.version_code)
       THEN Return(t, [kind |-> "VersionExists",
                       package_name |-> m.package_name,
                       version_code |-> m.version_code])
       ELSE /\ pc' = [pc EXCEPT ![t] = "get_app"]
            /\ UNCHANGED <<result, temp_dirs>>
    /\ UNCHANGED <<db, fs, fixed, upl, del, convert_calls, faults>>

\* Steps 8 and 9: is this a new app.
Upload_GetApp(t) ==
    /\ pc[t] = "get_app"
    /\ LET m == upl[t].metadata[1]
           existing_app == get_app(m.package_name)
       IN upl' = [upl EXCEPT ![t].is_new_app = Some(existing_app = None)]
    /\ pc' = [pc EXCEPT ![t] = "save_apk"]
    /\ UNCHANGED <<db, fs, temp_dirs, fixed, del, result,
                   convert_calls, faults>>

\* A query of step 7 or 9 fails with a database error.
Upload_QueryFails(t) ==
    /\ pc[t] \in {"check", "get_app"}
    /\ faults < MaxFaults
    /\ faults' = faults + 1
    /\ Return(t, Err("DatabaseError"))
    /\ UNCHANGED <<db, fs, fixed, upl, del, convert_calls>>

\* Step 10: save the APK.
Upload_SaveApk(t) ==
    /\ pc[t] = "save_apk"
    /\ LET m == upl[t].metadata[1]
           saved == save_apk(Tree, m.package_name, m.version_code,
                             upl[t].apk_data[1])
       IN IF ~saved.ok
          THEN Return(t, Err("StorageError(InvalidPackageName)"))
               /\ UNCHANGED fs
          ELSE /\ WriteTree(saved.tree)
               /\ pc' = [pc EXCEPT ![t] = "save_icon"]
               /\ UNCHANGED <<result, temp_dirs>>
    /\ UNCHANGED <<db, fixed, upl, del, convert_calls, faults>>

\* Step 11: save the icon, best effort.
Upload_SaveIcon(t) ==
    /\ pc[t] = "save_icon"
    /\ LET m == upl[t].metadata[1] IN
       IF m.icon_data = None
       THEN /\ upl' = [upl EXCEPT ![t].icon_path = None]
            /\ UNCHANGED <<fs, faults>>
       ELSE \/ LET saved == save_icon(Tree, m.package_name, m.icon_data[1]) IN
               /\ WriteTree(saved.tree)
               /\ upl' = [upl EXCEPT ![t].icon_path = saved.path]
               /\ UNCHANGED faults
            \/ /\ faults < MaxFaults
               /\ faults' = faults + 1
               /\ upl' = [upl EXCEPT ![t].icon_path = None]
               /\ UNCHANGED fs
    /\ pc' = [pc EXCEPT ![t] = "db"]
    /\ UNCHANGED <<db, temp_dirs, fixed, del, result, convert_calls>>

\* update_database: the transaction of step 12, from begin to commit.
update_database(package_name, version_code, version_name, apk_path, size, sha256, min_sdk, app_name, override_name, override_description, icon_path, is_new_app) ==
    LET tx1 == IF is_new_app
               THEN insert_app_tx(begin, package_name, app_name,
                                  override_description, icon_path)
               ELSE update_app_tx(begin, package_name, override_name,
                                  override_description, icon_path)
    IN insert_app_version_tx(tx1, package_name, version_code, version_name,
                             apk_path, size, sha256, min_sdk)

\* Mutant of cleanup_on_failure: the icon is deleted whether or not the app
\* was new.
cleanup_on_failure_always_icon(tree, package_name, version_code, is_new_app) ==
    delete_icon(delete_apk(tree, package_name, version_code).tree,
                package_name).tree

cleanup_on_failure(tree, package_name, version_code, is_new_app) ==
    LET t1 == delete_apk(tree, package_name, version_code).tree IN
    IF is_new_app THEN delete_icon(t1, package_name).tree ELSE t1

AppName(t) ==
    IF upl[t].input[1].override_name # None
    THEN upl[t].input[1].override_name[1]
    ELSE upl[t].metadata[1].app_name

\* Step 12: the catalog transaction; on failure the saved files are cleaned
\* up before the error is returned.
Upload_UpdateDatabase(t) ==
    /\ pc[t] = "db"
    /\ LET m == upl[t].metadata[1]
           inp == upl[t].input[1]
           apk_data == upl[t].apk_data[1]
           is_new_app == upl[t].is_new_app[1]
           tx == update_database(m.package_name, m.version_code,
                                 m.version_name,
                                 ApkPath(m.package_name, m.version_code),
                                 Len(apk_data), calculate_sha256(apk_data),
                                 m.min_sdk, AppName(t), inp.override_name,
                                 inp.override_description, upl[t].icon_path,
                                 is_new_app)
       IN \E failed \in BOOLEAN :
            /\ failed => tx.ok /\ faults < MaxFaults
            /\ faults' = IF failed THEN faults + 1 ELSE faults
            /\ IF tx.ok /\ ~failed
               THEN /\ apps' = tx.apps
                    /\ app_versions' = tx.versions
                    /\ UNCHANGED fs
                    /\ Return(t, [kind |-> "Ok",
                                  package_name |-> m.package_name,
                                  version_code |-> m.version_code,
                                  version_name |-> m.version_name,
                                  app_name |-> AppName(t),
                                  is_new_app |-> is_new_app])
               ELSE /\ UNCHANGED db
                    /\ WriteTree(cleanup_on_failure(Tree, m.package_name,
                                                    m.version_code, is_new_app))
                    /\ Return(t, Err("DatabaseError"))
    /\ UNCHANGED <<fixed, upl, del, convert_calls>>

\* The suspension points of process_upload after the temp directory exists.
Suspended(t) ==
    \/ pc[t] \in {"check", "get_app", "db"}
    \/ /\ pc[t] = "created"
       /\ LET inp == upl[t].input[1]
              file_type == detect_file_type(inp.data, inp.file_name)
          IN file_type = "Apk" \/ (file_type = "Aab" /\ aab_converter)

\* The request is dropped at a suspension point: the future's locals are
\* dropped and nothing else of the call runs.
Upload_Cancel(t) ==
    /\ t \in Uploaders
    /\ Suspended(t)
    /\ Return(t, Err("Cancelled"))
    /\ UNCHANGED <<db, fs, fixed, upl, del, convert_calls, faults>>

\* ------------------------------------------ api/handlers.rs: admin deletes
Respond(d, r) ==
    /\ pc' = [pc EXCEPT ![d] = "done"]
    /\ result' = [result EXCEPT ![d] = r]

Delete_Start(d) ==
    /\ pc[d] = "idle"
    /\ auth[d].stage = "admitted"
    /\ \E op \in {"delete_app", "delete_version"}, p \in PackageNames,
          vc \in VersionCodes :
         /\ op = "delete_app" => vc = 7
         /\ del' = [del EXCEPT ![d] = [op |-> op, package_name |-> p,
                                       version_code |-> vc,
                                       is_last_version |-> FALSE]]
         /\ pc' = [pc EXCEPT ![d] = IF op = "delete_app" THEN "da_get"
                                    ELSE "dv_get"]
    /\ UNCHANGED <<db, fs, temp_dirs, fixed, upl, result,
                   convert_calls, faults>>

DeleteApp_GetApp(d) ==
    /\ pc[d] = "da_get"
    /\ IF get_app(del[d].package_name) = None
       THEN Respond(d, Err("NotFound"))
       ELSE pc' = [pc EXCEPT ![d] = "da_files"] /\ UNCHANGED result
    /\ UNCHANGED <<db, fs, temp_dirs, fixed, upl, del,
                   convert_calls, faults>>

DeleteApp_DeletePackage(d) ==
    /\ pc[d] = "da_files"
    /\ LET deleted == delete_package(Tree, del[d].package_name) IN
       IF ~deleted.ok
       THEN Respond(d, Err("Internal")) /\ UNCHANGED fs
       ELSE /\ WriteTree(deleted.tree)
            /\ pc' = [pc EXCEPT ![d] = "da_db"]
            /\ UNCHANGED result
    /\ UNCHANGED <<db, temp_dirs, fixed, upl, del, convert_calls,
                   faults>>

DeleteApp_DeleteRows(d) ==
    /\ pc[d] = "da_db"
    /\ LET tables == delete_app([apps |-> apps, versions |-> app_versions],
                                del[d].package_name)
       IN apps' = tables.apps /\ app_versions' = tables.versions
    /\ Respond(d, Err("NoContent"))
    /\ UNCHANGED <<fs, temp_dirs, fixed, upl, del, convert_calls,
                   faults>>

DeleteVersion_GetVersions(d) ==
    /\ pc[d] = "dv_get"
    /\ LET versions == get_app_versions(del[d].package_name) IN
       IF ~\E v \in versions : v.version_code = del[d].version_code
       THEN Respond(d, Err("NotFound")) /\ UNCHANGED del
       ELSE /\ del' = [del EXCEPT ![d].is_last_version =
                          (Cardinality(versions) = 1)]
            /\ pc' = [pc EXCEPT ![d] = "dv_apk"]
            /\ UNCHANGED result
    /\ UNCHANGED <<db, fs, temp_dirs, fixed, upl, convert_calls,
                   faults>>

DeleteVersion_DeleteApk(d) ==
    /\ pc[d] = "dv_apk"
    /\ LET deleted == delete_apk(Tree, del[d].package_name,
                                 del[d].version_code) IN
       IF ~deleted.ok
       THEN Respond(d, Err("Internal")) /\ UNCHANGED fs
       ELSE /\ WriteTree(deleted.tree)
            /\ pc' = [pc EXCEPT ![d] = "dv_db"]
            /\ UNCHANGED result
    /\ UNCHANGED <<db, temp_dirs, fixed, upl, del, convert_calls,
                   faults>>

DeleteVersion_DeleteRow(d) ==
    /\ pc[d] = "dv_db"
    /\ app_versions' = delete_app_version(app_versions, del[d].package_name,
                                          del[d].version_code)
    /\ IF del[d].is_last_version
       THEN pc' = [pc EXCEPT ![d] = "dv_icon"] /\ UNCHANGED result
       ELSE Respond(d, Err("NoContent"))
    /\ UNCHANGED <<apps, fs, temp_dirs, fixed, upl, del,
                   convert_calls, faults>>

DeleteVersion_DeleteIcon(d) ==
    /\ pc[d] = "dv_icon"
    /\ LET deleted == delete_icon(Tree, del[d].package_name) IN
       IF ~deleted.ok
       THEN Respond(d, Err("Internal")) /\ UNCHANGED fs
       ELSE /\ WriteTree(deleted.tree)
            /\ pc' = [pc EXCEPT ![d] = "dv_app"]
            /\ UNCHANGED result
    /\ UNCHANGED <<db, temp_dirs, fixed, upl, del, convert_calls,
                   faults>>

DeleteVersion_DeleteApp(d) ==
    /\ pc[d] = "dv_app"
    /\ LET tables == delete_app([apps |-> apps, versions |-> app_versions],
                                del[d].package_name)
       IN apps' = tables.apps /\ app_versions' = tables.versions
    /\ Respond(d, Err("NoContent"))
    /\ UNCHANGED <<fs, temp_dirs, fixed, upl, del, convert_calls,
                   faults>>

\* A database call of a delete handler fails: the handler returns the error.
Delete_QueryFails(d) ==
    /\ pc[d] \in {"da_get", "da_db", "dv_get", "dv_db", "dv_app"}
    /\ faults < MaxFaults
    /\ faults' = faults + 1
    /\ Respond(d, Err("DatabaseError"))
    /\ UNCHANGED <<db, fs, temp_dirs, fixed, upl, del, convert_calls>>

\* ------------------------------------- api/file_response.rs: range serving
\* u64 arithmetic, on U64Bits bits.  An overflow panics the debug build and
\* wraps in the release build; None is the panic.
U64Modulus == 2 ^ U64Bits

CheckedOrWrapped(n, release) ==
    IF n >= 0 /\ n < U64Modulus THEN Some(n)
    ELSE IF release THEN Some((n + U64Modulus) % U64Modulus)
    ELSE None

Digits == <<"0", "1", "2", "3", "4", "5", "6", "7", "8", "9">>

DigitValue(c) == (CHOOSE i \in 1..10 : Digits[i] = c) - 1

IsDigit(c) == \E i \in 1..10 : Digits[i] = c

RECURSIVE DecimalValue(_, _)
DecimalValue(acc, s) ==
    IF s = << >> THEN acc
    ELSE IF acc >= U64Modulus THEN acc
    ELSE DecimalValue(acc * 10 + DigitValue(Head(s)), Tail(s))

\* str::parse::<u64>: an optional '+', then one or more decimal digits whose
\* value fits the type.
ParseU64(s) ==
    LET digits == IF s # << >> /\ Head(s) = "+" THEN Tail(s) ELSE s IN
    IF digits = << >> \/ \E i \in 1..Len(digits) : ~IsDigit(digits[i])
    THEN None
    ELSE IF DecimalValue(0, digits) >= U64Modulus THEN None
    ELSE Some(DecimalValue(0, digits))

\* The Display of a u64: its decimal digits.
RECURSIVE FormatU64(_)
FormatU64(n) ==
    IF n < 10 THEN <<Digits[n + 1]>>
    ELSE FormatU64(n \div 10) \o <<Digits[(n % 10) + 1]>>

IsWhitespace(c) == c \in {" ", "\t"}

RECURSIVE TrimStart(_)
TrimStart(s) ==
    IF s # << >> /\ IsWhitespace(Head(s)) THEN TrimStart(Tail(s)) ELSE s

RECURSIVE TrimEnd(_)
TrimEnd(s) ==
    IF s # << >> /\ IsWhitespace(s[Len(s)])
    THEN TrimEnd(SubSeq(s, 1, Len(s) - 1)) ELSE s

Trim(s) == TrimEnd(TrimStart(s))

StripPrefix(s, prefix) ==
    IF Len(s) >= Len(prefix) /\ SubSeq(s, 1, Len(prefix)) = prefix
    THEN Some(SubSeq(s, Len(prefix) + 1, Len(s)))
    ELSE None

\* str::split: the pieces between the separators, empty pieces included.
RECURSIVE Split(_, _, _)
Split(s, sep, piece) ==
    IF s = << >> THEN <<piece>>
    ELSE IF Head(s) = sep THEN <<piece>> \o Split(Tail(s), sep, << >>)
    ELSE Split(Tail(s), sep, Append(piece, Head(s)))

BytesEq == <<"b", "y", "t", "e", "s", "=">>

RangeOk(start, end) == [kind |-> "Ok", start |-> start, end |-> end]
RangeErr(kind) == [kind |-> kind, start |-> 0, end |-> 0]

\* end.min(file_size - 1)
CapEnd(end, last) == IF end < last THEN end ELSE last

\* suffix_len == 0
SuffixLenIsZero(suffix_len) == suffix_len = 0

parse_range_header(header, file_size, release) ==
    LET range_spec == StripPrefix(header, BytesEq)
        parts == Split(range_spec[1], "-", << >>)
        start_str == Trim(parts[1])
        end_str == Trim(parts[2])
        suffix_len == ParseU64(end_str)
        start == ParseU64(start_str)
        end == ParseU64(end_str)
        last == CheckedOrWrapped(file_size - 1, release)
    IN
    IF range_spec = None THEN RangeErr("InvalidFormat")
    ELSE IF Len(parts) # 2 THEN RangeErr("InvalidFormat")
    ELSE IF start_str = << >> THEN
        IF suffix_len = None THEN RangeErr("InvalidFormat")
        ELSE IF SuffixLenIsZero(suffix_len[1]) THEN RangeErr("NotSatisfiable")
        ELSE IF last = None THEN RangeErr("Panic")
        ELSE RangeOk(IF file_size > suffix_len[1]
                     THEN file_size - suffix_len[1] ELSE 0, last[1])
    ELSE IF start = None THEN RangeErr("InvalidFormat")
    ELSE IF start[1] >= file_size THEN RangeErr("NotSatisfiable")
    ELSE IF end_str # << >> /\ end = None THEN RangeErr("InvalidFormat")
    ELSE LET e == IF end_str = << >> THEN last[1] ELSE CapEnd(end[1], last[1])
         IN IF start[1] > e THEN RangeErr("NotSatisfiable")
            ELSE RangeOk(start[1], e)

Response(status, content_length, content_range, body) ==
    [status |-> status, content_length |-> content_length,
     content_range |-> content_range, body |-> body]

\* A request whose handler panicked gets no response.
Panicked == Response(0, None, None, << >>)

\* Mutant of Take: the file is read from its first byte, without the seek.
Take_without_seek(file, start, length) ==
    SubSeq(file, 1, IF length < Len(file) THEN length ELSE Len(file))

\* AsyncReadExt::take after a seek: at most length bytes from offset start.
Take(file, start, length) ==
    SubSeq(file, start + 1,
           IF start + length < Len(file) THEN start + length ELSE Len(file))

\* Mutant of ContentLength: the length of the file, not of the slice.
ContentLength_of_file(length, file_size) == file_size

\* The Content-Length of a partial response.
ContentLength(length, file_size) == length

\* FileResponseBuilder::build; range is None or Some(<<start, end>>).
build(file, range, release) ==
    LET file_size == Len(file) IN
    IF range = None THEN Response(200, Some(file_size), None, file)
    ELSE LET start == range[1][1]
             end == range[1][2]
             length == CheckedOrWrapped(
                           ((end - start + U64Modulus) % U64Modulus) + 1,
                           release)
         IN IF length = None THEN Panicked
            ELSE Response(206, Some(ContentLength(length[1], file_size)),
                          Some(<<"b", "y", "t", "e", "s", " ">>
                               \o FormatU64(start) \o <<"-">>
                               \o FormatU64(end) \o <<"/">>
                               \o FormatU64(file_size)),
                          Take(file, start, length[1]))

\* serve_file; file is None when the path does not exist.
serve_file(file, range_header, release) ==
    IF file = None THEN Response(404, None, None, << >>)
    ELSE LET file_size == Len(file[1])
             parsed == parse_range_header(range_header[1], file_size, release)
         IN IF range_header = None THEN build(file[1], None, release)
            ELSE IF parsed.kind = "Ok"
                 THEN build(file[1], Some(<<parsed.start, parsed.end>>),
                            release)
            ELSE IF parsed.kind = "NotSatisfiable"
                 THEN Response(416, None,
                               Some(<<"b", "y", "t", "e", "s", " ", "*", "/">>
                                    \o FormatU64(file_size)), << >>)
            ELSE IF parsed.kind = "Panic" THEN Panicked
            ELSE build(file[1], None, release)

\* The Range headers sent: bytes=<a>-<b> over these bounds, and some headers
\* of another shape.
RangeBounds ==
    {FormatU64(n) : n \in 0..MaxFileSize}
        \cup {<< >>, <<"x">>, <<" ", "1">>, <<"+", "2">>,
              <<"9", "9", "9", "9", "9">>}

RangeHeader(a, b) == BytesEq \o a \o <<"-">> \o b

RangeHeaders ==
    {Some(RangeHeader(a, b)) : a, b \in RangeBounds}
        \cup {None,
              Some(<<"i", "n", "v", "a", "l", "i", "d">>),
              Some(BytesEq \o <<"1", "-", "2", "-", "3">>),
              Some(BytesEq \o <<"1">>),
              Some(<<"B", "Y", "T", "E", "S", "=", "0", "-", "1">>)}

\* The bytes of a file of the given size: byte i is i.
FileOfSize(n) == [i \in 1..n |-> i]

Served(range_header) ==
    [range_header |-> range_header,
     response |-> serve_file(dl.file, range_header, dl.release)]

\* download_apk: a request for the file, answered by serve_file.
Download_Serve ==
    /\ dl.served = << >>
    /\ \E range_header \in RangeHeaders :
         dl' = [dl EXCEPT !.served = <<Served(range_header)>>]
    /\ UNCHANGED <<db, fs, temp_dirs, fixed_store, pc, upl, del, result,
                   convert_calls, faults, auth, upd>>

\* download_apk: the client's follow-up request for the same file.
Download_Resume ==
    /\ Len(dl.served) = 1
    /\ \E range_header \in RangeHeaders :
         dl' = [dl EXCEPT !.served = Append(@, Served(range_header))]
    /\ UNCHANGED <<db, fs, temp_dirs, fixed_store, pc, upl, del, result,
                   convert_calls, faults, auth, upd>>

InitRange ==
    /\ InitStore
    /\ auth = [t \in Tasks |-> Admitted]
    /\ \E n \in 0..MaxFileSize, missing, release \in BOOLEAN :
         dl = [file |-> IF missing THEN None ELSE Some(FileOfSize(n)),
               release |-> release, served |-> << >>]

NextRange == Download_Serve \/ Download_Resume

SpecRange == InitRange /\ [][NextRange]_vars

\* ------------------------------------- services/apk.rs: the badging parser
\* str::find: the index of the first occurrence of key in s, 0 when absent.
Find(s, key) ==
    LET hits == {i \in 1..(Len(s) - Len(key) + 1) :
                    SubSeq(s, i, i + Len(key) - 1) = key}
    IN IF hits = {} THEN 0 ELSE CHOOSE i \in hits : \A j \in hits : i <= j

\* The value between the quote that opens rest and the next quote of the
\* same kind.
QuotedValue(rest) ==
    IF rest = << >> THEN None
    ELSE IF rest[1] \notin {"'", "\""} THEN None
    ELSE LET value_end == Find(Tail(rest), <<rest[1]>>) IN
         IF value_end = 0 THEN None
         ELSE Some(SubSeq(rest, 2, value_end))

extract_quoted_value(line, key) ==
    IF Find(line, key) = 0 THEN None
    ELSE QuotedValue(SubSeq(line, Find(line, key) + Len(key), Len(line)))

extract_quoted_value_colon(line) ==
    IF Find(line, <<":">>) = 0 THEN None
    ELSE QuotedValue(SubSeq(line, Find(line, <<":">>) + 1, Len(line)))

\* str::parse::<i64> and str::parse::<i32>: an optional sign, then decimal
\* digits whose value fits the type (on U64Bits bits).
ParseI64(s) ==
    LET signed == s # << >> /\ Head(s) \in {"+", "-"}
        digits == IF signed THEN Tail(s) ELSE s
        value == DecimalValue(0, digits)
    IN IF digits = << >> \/ \E i \in 1..Len(digits) : ~IsDigit(digits[i])
       THEN None
       ELSE IF signed /\ Head(s) = "-"
       THEN (IF value > U64Modulus \div 2 THEN None ELSE Some(0 - value))
       ELSE IF value >= U64Modulus \div 2 THEN None
       ELSE Some(value)

\* i64::to_string
FormatI64(n) == IF n < 0 THEN <<"-">> \o FormatU64(0 - n) ELSE FormatU64(n)


\* The literals the parser looks for.
Aapt2Key ==
    [package |-> <<"p", "a", "c", "k", "a", "g", "e", ":">>,
     name |-> <<"n", "a", "m", "e", "=">>,
     version_code |-> <<"v", "e", "r", "s", "i", "o", "n", "C", "o", "d", "e", "=">>,
     version_name |-> <<"v", "e", "r", "s", "i", "o", "n", "N", "a", "m", "e", "=">>,
     sdk_version |-> <<"s", "d", "k", "V", "e", "r", "s", "i", "o", "n", ":">>,
     label |-> <<"a", "p", "p", "l", "i", "c", "a", "t", "i", "o", "n", "-", "l", "a", "b", "e", "l", ":">>,
     icon |-> <<"a", "p", "p", "l", "i", "c", "a", "t", "i", "o", "n", "-", "i", "c", "o", "n", "-">>]

parse_icon_line(line) ==
    IF StripPrefix(line, Aapt2Key.icon) = None \/ Find(line, <<":">>) = 0 THEN None
    ELSE LET density == ParseI64(SubSeq(line, Len(Aapt2Key.icon) + 1,
                                        Find(line, <<":">>) - 1))
             path == extract_quoted_value_colon(line)
         IN IF density = None \/ path = None THEN None
            ELSE Some(<<density[1], path[1]>>)

\* str::lines: the pieces between line feeds, without a last empty piece and
\* without the carriage return that ends a piece.
Lines(output) ==
    LET feeds == {i \in 1..Len(output) : output[i] = "\n"}
        ends == feeds \cup (IF output # << >> /\ Len(output) \notin feeds
                            THEN {Len(output) + 1} ELSE {})
        End(k) == CHOOSE i \in ends : Cardinality({j \in ends : j < i}) = k - 1
        Piece(k) == SubSeq(output, IF k = 1 THEN 1 ELSE End(k - 1) + 1,
                           End(k) - 1)
    IN [k \in 1..Cardinality(ends) |->
           IF Piece(k) # << >> /\ Piece(k)[Len(Piece(k))] = "\r"
           THEN SubSeq(Piece(k), 1, Len(Piece(k)) - 1) ELSE Piece(k)]

\* The loop of parse_aapt2_output over the lines: what it has collected.
CollectLine(c, line) ==
    LET OrKeep(value, kept) == IF value # None THEN value ELSE kept
        is_package == StripPrefix(line, Aapt2Key.package) # None
        is_sdk == StripPrefix(line, Aapt2Key.sdk_version) # None
        is_label == StripPrefix(line, Aapt2Key.label) # None
        code == extract_quoted_value(line, Aapt2Key.version_code)
        after_colon == extract_quoted_value_colon(line)
    IN [package_name |->
            IF is_package
            THEN OrKeep(extract_quoted_value(line, Aapt2Key.name), c.package_name)
            ELSE c.package_name,
        version_code |->
            IF is_package /\ code # None THEN ParseI64(code[1])
            ELSE c.version_code,
        version_name |->
            IF is_package
            THEN OrKeep(extract_quoted_value(line, Aapt2Key.version_name),
                        c.version_name)
            ELSE c.version_name,
        min_sdk |-> IF is_sdk /\ after_colon # None
                    THEN ParseI64(after_colon[1]) ELSE c.min_sdk,
        app_name |-> IF is_label THEN OrKeep(after_colon, c.app_name)
                     ELSE c.app_name,
        icon_paths |-> IF parse_icon_line(line) # None
                       THEN Append(c.icon_paths, parse_icon_line(line)[1])
                       ELSE c.icon_paths]

RECURSIVE Collect(_, _)
Collect(c, lines) ==
    IF lines = << >> THEN c
    ELSE Collect(CollectLine(c, Head(lines)), Tail(lines))

\* The first element of the stable sort by falling density.
HighestDensity(icon_paths) ==
    IF icon_paths = << >> THEN None
    ELSE LET first == CHOOSE i \in 1..Len(icon_paths) :
                         /\ \A j \in 1..Len(icon_paths) :
                               icon_paths[j][1] <= icon_paths[i][1]
                         /\ \A j \in 1..(i - 1) :
                               icon_paths[j][1] < icon_paths[i][1]
         IN Some(icon_paths[first][2])

ParseError(message) ==
    [kind |-> "ParseError", message |-> message, package_name |-> << >>,
     version_code |-> 0, version_name |-> << >>, min_sdk |-> 0,
     app_name |-> << >>, icon_path |-> None]

parse_aapt2_output(output) ==
    LET c == Collect([package_name |-> None, version_code |-> None,
                      version_name |-> None, min_sdk |-> None,
                      app_name |-> None, icon_paths |-> << >>],
                     Lines(output))
        icon_path == HighestDensity(c.icon_paths)
    IN IF c.package_name = None THEN ParseError("Missing package name")
       ELSE IF c.version_code = None THEN ParseError("Missing version code")
       ELSE [kind |-> "Ok", message |-> "",
             package_name |-> c.package_name[1],
             version_code |-> c.version_code[1],
             version_name |-> IF c.version_name # None THEN c.version_name[1]
                              ELSE FormatI64(c.version_code[1]),
             min_sdk |-> IF c.min_sdk # None THEN c.min_sdk[1] ELSE 21,
             app_name |-> IF c.app_name # None THEN c.app_name[1]
                          ELSE c.package_name[1],
             icon_path |->
                 IF icon_path # None
                    /\ (ContainsDotDot(icon_path[1])
                        \/ StripPrefix(icon_path[1], <<"/">>) # None)
                 THEN None ELSE icon_path]

\* What the inspection tool prints for a manifest: the package line with the
\* attributes the manifest has, then the lines for the SDK, the label and
\* the icons.
Attribute(key, value) ==
    IF value = None THEN << >> ELSE <<" ">> \o key \o <<"'">> \o value[1] \o <<"'">>

RECURSIVE IconLines(_)
IconLines(icons) ==
    IF icons = << >> THEN << >>
    ELSE Aapt2Key.icon \o icons[1][1] \o <<":", "'">> \o icons[1][2] \o <<"'", "\n">>
         \o IconLines(Tail(icons))

Badging2(m) ==
    Aapt2Key.package \o Attribute(Aapt2Key.name, m.name)
        \o Attribute(Aapt2Key.version_code, m.version_code)
        \o Attribute(Aapt2Key.version_name, m.version_name)
        \o Attribute(<<"c", "o", "m", "p", "i", "l", "e", "S", "d", "k", "V", "e", "r", "s", "i", "o", "n", "C", "o", "d", "e", "n", "a", "m", "e", "=">>, m.codename)
        \o <<"\n">>
        \o (IF m.sdk = None THEN << >>
            ELSE Aapt2Key.sdk_version \o <<"'">> \o m.sdk[1] \o <<"'", "\n">>)
        \o (IF m.label = None THEN << >>
            ELSE Aapt2Key.label \o <<"'">> \o m.label[1] \o <<"'", "\n">>)
        \o IconLines(m.icons)

Manifests ==
    [name : {None, Some(PkgA)},
     version_code : {None, Some(<<"7">>), Some(<<"x">>)},
     version_name : {None, Some(<<"1", ".", "2">>)},
     codename : {None, Some(<<"1", "4">>)},
     sdk : {None, Some(<<"2", "4">>)},
     label : {None, Some(<<"A", "c", "m", "e">>)},
     icons : {<< >>,
              <<<<<<"1", "6", "0">>, <<"m", ".", "p", "n", "g">>>>>>,
              <<<<<<"1", "6", "0">>, <<"m", ".", "p", "n", "g">>>>, <<<<"6", "4", "0">>, <<"x", ".", "p", "n", "g">>>>, <<<<"6", "4", "0">>, <<"y", ".", "p", "n", "g">>>>>>,
              <<<<<<"6", "4", "0">>, <<".", ".", "/", "x", ".", "p", "n", "g">>>>>>}]

Aapt2_Parse ==
    /\ aapt2.parsed = None
    /\ \E m \in Manifests :
         aapt2' = [manifest |-> Some(m),
                   parsed |-> Some(parse_aapt2_output(Badging2(m)))]
    /\ UNCHANGED <<db, fs, temp_dirs, aab_converter, storage_call, pc, upl,
                   del, result, convert_calls, faults, dl, auth, upd>>

NextParse == Aapt2_Parse

SpecParse == Init /\ [][NextParse]_vars

\* ------------------------------ services/upload.rs: one upload, any input
\* File names and bytes for every branch of the type detection: the
\* suffixes in both cases, a name that is only the suffix, a name without
\* one, bytes that are too short, not 'PK', 'PK' but no archive, and the
\* four archive listings.
DetectInputs ==
    LET names == {NameApk, NameAab, NameTxt, <<"x", ".", "A", "p", "K">>,
                  <<".", "a", "a", "b">>, <<"a", "p", "k">>, << >>}
        bytes == {<<80, 75>>, <<80, 75, 1>>, <<1, 2, 3, 4>>, <<75, 80, 1, 1>>,
                  <<80, 1, 1, 1>>, Container(9, 1, 4)}
                 \cup {Container(listing, 2, 4) : listing \in 1..4}
    IN {Upload(file_name, data, None, None) :
           file_name \in names, data \in bytes}

Detect_Start == process_upload_begin(1, DetectInputs)

NextDetect ==
    \/ Detect_Start
    \/ Upload_Inspect(1)
    \/ Upload_CheckVersion(1)
    \/ Upload_GetApp(1)
    \/ Upload_SaveApk(1)
    \/ Upload_SaveIcon(1)
    \/ Upload_UpdateDatabase(1)

SpecDetect == Init /\ [][NextDetect]_vars

\* ------------------------------------- services/storage.rs: direct calls
\* The names the storage operations are called with: accepted ones, one for
\* each reason of rejection, and the two lengths around the limit.
LongName(n) == <<"a", ".">> \o [i \in 1..(n - 2) |-> "b"]

StorageNames ==
    PackageNames \cup
    {<< >>, <<".">>, <<"a", ".">>, <<"a", "/", "b", ".", "c">>,
     <<"a", "\\", "b", ".", "c">>, <<"a", ".", ".", "b">>, <<".", ".">>,
     <<"a", ".", "NUL", "b">>, <<"/">>, LongName(255), LongName(256)}

StorageCall(op, package_name, version_code, ok) ==
    [op |-> op, package_name |-> package_name, version_code |-> version_code,
     ok |-> ok, err |-> IF ok THEN None ELSE Some("InvalidPackageName")]

\* The paths of this model lie under the packages of PackageNames: an
\* operation that passes the validation is called with one of them.
HasPaths(package_name) ==
    validate_package_name(package_name) => package_name \in PackageNames

Storage_Validate ==
    /\ \E package_name \in StorageNames :
         storage_call' = StorageCall("validate_package_name", package_name, 0,
                                     validate_package_name(package_name))
    /\ UNCHANGED <<db, fs, temp_dirs, aab_converter, pc, upl, del, result,
                   convert_calls, faults, dl, auth, upd, aapt2>>

StorageOp(op, package_name, version_code, r) ==
    /\ HasPaths(package_name)
    /\ storage_call' = StorageCall(op, package_name, version_code, r.ok)
    /\ WriteTree(r.tree)
    /\ UNCHANGED <<db, temp_dirs, aab_converter, pc, upl, del, result,
                   convert_calls, faults, dl, auth, upd, aapt2>>

Storage_SaveApk ==
    \E package_name \in StorageNames, version_code \in VersionCodes :
        StorageOp("save_apk", package_name, version_code,
                  save_apk(Tree, package_name, version_code, <<80, 75, 1, 1>>))

Storage_SaveIcon ==
    \E package_name \in StorageNames :
        StorageOp("save_icon", package_name, 0,
                  save_icon(Tree, package_name, IconPng))

Storage_DeleteApk ==
    \E package_name \in StorageNames, version_code \in VersionCodes :
        StorageOp("delete_apk", package_name, version_code,
                  delete_apk(Tree, package_name, version_code))

Storage_DeleteIcon ==
    \E package_name \in StorageNames :
        StorageOp("delete_icon", package_name, 0,
                  delete_icon(Tree, package_name))

Storage_DeletePackage ==
    \E package_name \in StorageNames :
        StorageOp("delete_package", package_name, 0,
                  delete_package(Tree, package_name))

NextStorage ==
    \/ Storage_Validate
    \/ Storage_SaveApk
    \/ Storage_SaveIcon
    \/ Storage_DeleteApk
    \/ Storage_DeleteIcon
    \/ Storage_DeletePackage

SpecStorage == Init /\ [][NextStorage]_vars

\* ------------------------------- api/handlers.rs: the upload route's errors
UploadErrors ==
    {"FileTooLarge", "InvalidFileType", "VersionExists", "AabNotSupported",
     "ApkError", "AabError(InvalidAab)", "AabError(ConversionFailed)",
     "StorageError(InvalidPackageName)", "StorageError(Io)", "DatabaseError",
     "Io"}

\* The map_err of upload_app: the AppError of an UploadError.
upload_app_map_err(kind) ==
    CASE kind = "FileTooLarge" -> "PayloadTooLarge"
      [] kind = "InvalidFileType" -> "InvalidFileType"
      [] kind = "VersionExists" -> "Conflict"
      [] kind = "AabNotSupported" -> "BadRequest"
      [] OTHER -> "Internal"

\* AppError::into_response
AppErrorStatus(error) ==
    CASE error = "NotFound" -> 404
      [] error = "BadRequest" -> 400
      [] error = "PayloadTooLarge" -> 413
      [] error = "InvalidFileType" -> 400
      [] error = "Conflict" -> 409
      [] error = "RangeNotSatisfiable" -> 416
      [] OTHER -> 500

\* ------------------------------------------ api/handlers.rs: admin update
\* Mutant of update_app: an omitted field is written as NULL.
update_app_nulls_omitted(table, package_name, name, description, icon_path) ==
    IF name = None /\ description = None /\ icon_path = None THEN table
    ELSE IF table[package_name] = None THEN table
    ELSE LET old == table[package_name][1] IN
         [table EXCEPT ![package_name] =
              Some([name |-> IF name # None THEN name[1] ELSE old.name,
                    description |-> description,
                    icon_path |-> icon_path,
                    updated_at |-> old.updated_at + 1])]

\* db::update_app: UPDATE apps SET <the supplied fields> WHERE package_name = ?
update_app(table, package_name, name, description, icon_path) ==
    IF name = None /\ description = None /\ icon_path = None THEN table
    ELSE IF table[package_name] = None THEN table
    ELSE LET old == table[package_name][1] IN
         [table EXCEPT ![package_name] =
              Some([name |-> IF name # None THEN name[1] ELSE old.name,
                    description |-> IF description # None THEN description
                                    ELSE old.description,
                    icon_path |-> IF icon_path # None THEN icon_path
                                  ELSE old.icon_path,
                    updated_at |-> old.updated_at + 1])]

NewName == <<"M">>
NewDescription == <<"E">>

Update_Start(u) ==
    /\ pc[u] = "idle"
    /\ auth[u].stage = "admitted"
    /\ \E p \in PackageNames, name \in {None, Some(NewName)},
          description \in {None, Some(NewDescription)} :
         upd' = [upd EXCEPT ![u] = [package_name |-> p, name |-> name,
                                    description |-> description]]
    /\ pc' = [pc EXCEPT ![u] = "ua_get"]
    /\ UNCHANGED <<db, fs, temp_dirs, fixed_store, upl, del, result,
                   convert_calls, faults, dl, auth>>

UpdateApp_GetApp(u) ==
    /\ pc[u] = "ua_get"
    /\ IF get_app(upd[u].package_name) = None
       THEN Respond(u, Err("NotFound"))
       ELSE pc' = [pc EXCEPT ![u] = "ua_update"] /\ UNCHANGED result
    /\ UNCHANGED <<db, fs, temp_dirs, fixed_store, upl, del,
                   convert_calls, faults, dl, auth, upd>>

UpdateApp_Update(u) ==
    /\ pc[u] = "ua_update"
    /\ apps' = IF upd[u].name # None \/ upd[u].description # None
               THEN update_app(apps, upd[u].package_name, upd[u].name,
                               upd[u].description, None)
               ELSE apps
    /\ pc' = [pc EXCEPT ![u] = "ua_fetch"]
    /\ UNCHANGED <<app_versions, fs, temp_dirs, fixed_store, upl, del,
                   result, convert_calls, faults, dl, auth, upd>>

UpdateApp_Fetch(u) ==
    /\ pc[u] = "ua_fetch"
    /\ LET app == get_app(upd[u].package_name) IN
       IF app = None THEN Respond(u, Err("Internal"))
       ELSE Respond(u, [kind |-> "Ok", name |-> app[1].name,
                        description |-> app[1].description,
                        versions |-> get_app_versions(upd[u].package_name)])
    /\ UNCHANGED <<db, fs, temp_dirs, fixed_store, upl, del,
                   convert_calls, faults, dl, auth, upd>>

\* A database call of the update handler fails: the handler returns the error.
Update_QueryFails(u) ==
    /\ pc[u] \in {"ua_get", "ua_update", "ua_fetch"}
    /\ faults < MaxFaults
    /\ faults' = faults + 1
    /\ Respond(u, Err("DatabaseError"))
    /\ UNCHANGED <<db, fs, temp_dirs, fixed_store, upl, del,
                   convert_calls, dl, auth, upd>>

\* ------------------------------------------------- auth: the admin routes
Bearer == <<"B", "e", "a", "r", "e", "r", " ">>
BearerLower == <<"b", "e", "a", "r", "e", "r", " ">>

\* The tokens: an admin's, a plain user's, an expired one, one with a bad
\* signature, one signed with a key the provider does not list, and one that
\* is no JWT.
Tokens == {<<"A">>, <<"U">>, <<"E">>, <<"S">>, <<"K">>, <<"x">>}

AuthorizationHeaders ==
    {None, Some(<<"B", "a", "s", "i", "c", " ", "x">>), Some(Bearer)}
        \cup {Some(Bearer \o token) : token \in Tokens}
        \cup {Some(BearerLower \o <<"U">>)}

AuthOk(value) == [err |-> None, value |-> value]
AuthErr(kind) == [err |-> Some(kind), value |-> None]

extract_bearer_token(authorization) ==
    IF authorization = None THEN AuthErr("MissingToken")
    ELSE LET auth_header == authorization[1]
             token == IF StripPrefix(auth_header, Bearer) # None
                      THEN StripPrefix(auth_header, Bearer)
                      ELSE StripPrefix(auth_header, BearerLower)
         IN IF token = None THEN AuthErr("InvalidAuthHeader")
            ELSE IF token[1] = << >> THEN AuthErr("InvalidAuthHeader")
            ELSE AuthOk(token)

\* TokenValidator::validate: the roles of the token's claims, or the error.
\* The key of token K is not cached and the key set is fetched again.
validate(token, jwks_reachable) ==
    IF token = <<"A">> THEN AuthOk(Some({"admin", "user"}))
    ELSE IF token = <<"U">> THEN AuthOk(Some({"user"}))
    ELSE IF token = <<"E">> THEN AuthErr("TokenExpired")
    ELSE IF token = <<"K">>
         THEN IF jwks_reachable THEN AuthErr("KeyNotFound")
              ELSE AuthErr("JwksFailed")
    ELSE AuthErr("TokenInvalid")

admin_role == "admin"

\* User::from_claims
is_admin(roles) == \E r \in roles : r = admin_role

\* AuthError::into_response
AuthErrorStatus(kind) ==
    IF kind \in {"MissingToken", "InvalidAuthHeader", "TokenInvalid",
                 "TokenExpired", "KeyNotFound"} THEN 401
    ELSE IF kind = "Forbidden" THEN 403
    ELSE 500

Rejected(request, status) ==
    [request EXCEPT !.stage = "rejected", !.status = status]

auth_middleware(t) ==
    /\ auth[t].stage = "new"
    /\ \E authorization \in AuthorizationHeaders, jwks_reachable \in BOOLEAN :
         \* the key set is fetched only for a key that is not cached
         /\ authorization # Some(Bearer \o <<"K">>) => jwks_reachable
         /\ LET token == extract_bearer_token(authorization)
                claims == validate(token.value[1], jwks_reachable)
                request == [auth[t] EXCEPT !.authorization = authorization,
                                           !.jwks_reachable = jwks_reachable]
            IN auth' = [auth EXCEPT ![t] =
                   IF token.err # None
                   THEN Rejected(request, AuthErrorStatus(token.err[1]))
                   ELSE IF claims.err # None
                   THEN Rejected(request, AuthErrorStatus(claims.err[1]))
                   ELSE [request EXCEPT !.stage = "authenticated",
                                        !.is_admin = is_admin(claims.value[1])]]
    /\ UNCHANGED <<db, fs, temp_dirs, fixed_store, pc, upl, del, result,
                   convert_calls, faults, dl, upd>>

\* Mutant of AdminUser_from_request_parts: any authenticated user passes.
AdminUser_any_user(t) ==
    /\ auth[t].stage = "authenticated"
    /\ auth' = [auth EXCEPT ![t].stage = "admitted"]
    /\ UNCHANGED <<db, fs, temp_dirs, fixed_store, pc, upl, del, result,
                   convert_calls, faults, dl, upd>>

\* AdminUser::from_request_parts, the first extractor of every admin handler.
AdminUser_from_request_parts(t) ==
    /\ auth[t].stage = "authenticated"
    /\ auth' = [auth EXCEPT ![t] =
                   IF auth[t].is_admin THEN [auth[t] EXCEPT !.stage = "admitted"]
                   ELSE Rejected(auth[t], AuthErrorStatus("Forbidden"))]
    /\ UNCHANGED <<db, fs, temp_dirs, fixed_store, pc, upl, del, result,
                   convert_calls, faults, dl, upd>>

\* The admin routes behind the auth layer: one upload, one update and one
\* delete request, each with whatever Authorization header it carries.
InitAdmin ==
    /\ InitStore
    /\ dl = NoDownload
    /\ auth = [t \in Tasks |-> NotAuthenticated]

AdminRequests == {1} \cup Deleters \cup Updaters

NextAdmin ==
    \/ \E t \in AdminRequests :
         \/ auth_middleware(t)
         \/ AdminUser_from_request_parts(t)
    \/ \E t \in Uploaders \cap AdminRequests :
         \/ Upload_Start(t)
         \/ Upload_Inspect(t)
         \/ Upload_CheckVersion(t)
         \/ Upload_GetApp(t)
         \/ Upload_QueryFails(t)
         \/ Upload_SaveApk(t)
         \/ Upload_SaveIcon(t)
         \/ Upload_UpdateDatabase(t)
         \/ Upload_Cancel(t)
    \/ \E d \in Deleters :
         \/ Delete_Start(d)
         \/ DeleteApp_GetApp(d)
         \/ DeleteApp_DeletePackage(d)
         \/ DeleteApp_DeleteRows(d)
         \/ DeleteVersion_GetVersions(d)
         \/ DeleteVersion_DeleteApk(d)
         \/ DeleteVersion_DeleteRow(d)
         \/ DeleteVersion_DeleteIcon(d)
         \/ DeleteVersion_DeleteApp(d)
         \/ Delete_QueryFails(d)
    \/ \E u \in Updaters :
         \/ Update_Start(u)
         \/ UpdateApp_GetApp(u)
         \/ UpdateApp_Update(u)
         \/ UpdateApp_Fetch(u)
         \/ Update_QueryFails(u)

SpecAdmin == InitAdmin /\ [][NextAdmin]_vars

\* ---------------------------------------------------------- the system
Next ==
    \/ \E t \in Uploaders :
         \/ Upload_Start(t)
         \/ Upload_Inspect(t)
         \/ Upload_CheckVersion(t)
         \/ Upload_GetApp(t)
         \/ Upload_QueryFails(t)
         \/ Upload_SaveApk(t)
         \/ Upload_SaveIcon(t)
         \/ Upload_UpdateDatabase(t)
         \/ Upload_Cancel(t)
    \/ \E d \in Deleters :
         \/ Delete_Start(d)
         \/ DeleteApp_GetApp(d)
         \/ DeleteApp_DeletePackage(d)
         \/ DeleteApp_DeleteRows(d)
         \/ DeleteVersion_GetVersions(d)
         \/ DeleteVersion_DeleteApk(d)
         \/ DeleteVersion_DeleteRow(d)
         \/ DeleteVersion_DeleteIcon(d)
         \/ DeleteVersion_DeleteApp(d)
         \/ Delete_QueryFails(d)

Spec == Init /\ [][Next]_vars

\* One request at a time: a request starts only when no other is in progress.
NoneInProgress == \A t \in Tasks : pc[t] \in {"idle", "done"}

NextSeq ==
    \/ \E t \in Uploaders :
         \/ NoneInProgress /\ Upload_Start(t)
         \/ Upload_Inspect(t)
         \/ Upload_CheckVersion(t)
         \/ Upload_GetApp(t)
         \/ Upload_QueryFails(t)
         \/ Upload_SaveApk(t)
         \/ Upload_SaveIcon(t)
         \/ Upload_UpdateDatabase(t)
         \/ Upload_Cancel(t)
    \/ \E d \in Deleters :
         \/ NoneInProgress /\ Delete_Start(d)
         \/ DeleteApp_GetApp(d)
         \/ DeleteApp_DeletePackage(d)
         \/ DeleteApp_DeleteRows(d)
         \/ DeleteVersion_GetVersions(d)
         \/ DeleteVersion_DeleteApk(d)
         \/ DeleteVersion_DeleteRow(d)
         \/ DeleteVersion_DeleteIcon(d)
         \/ DeleteVersion_DeleteApp(d)
         \/ Delete_QueryFails(d)

SpecSeq == Init /\ [][NextSeq]_vars

\* --------------------- api/handlers.rs: delete requests on a stocked store
\* Two admin delete requests against a store that two uploads have stocked
\* with versions 7 and 8 of one package and its icon.
TwoDeleters == {101, 102}

InitDeletes ==
    LET apk7 == Container(1, 2, 4)
        apk8 == Container(1, 3, 4)
        m7 == ApkParserParse(apk7)[1]
        m8 == ApkParserParse(apk8)[1]
        empty == [apk_files |-> [f \in ApkPaths |-> None], apk_dirs |-> {},
                  icon_files |-> [f \in IconPaths |-> None]]
        tree == save_apk(save_icon(save_apk(empty, PkgA, 7, apk7).tree,
                                   PkgA, IconPng).tree, PkgA, 8, apk8).tree
        tx0 == [ok |-> TRUE, apps |-> [p \in PackageNames |-> None],
                versions |-> {}]
        tx1 == insert_app_version_tx(
                   insert_app_tx(tx0, PkgA, m7.app_name, None,
                                 Some(IconPath(PkgA))),
                   PkgA, 7, m7.version_name, ApkPath(PkgA, 7), Len(apk7),
                   calculate_sha256(apk7), m7.min_sdk)
        tx2 == insert_app_version_tx(
                   update_app_tx(tx1, PkgA, None, None, Some(IconPath(PkgA))),
                   PkgA, 8, m8.version_name, ApkPath(PkgA, 8), Len(apk8),
                   calculate_sha256(apk8), m8.min_sdk)
    IN /\ apps = tx2.apps
       /\ app_versions = tx2.versions
       /\ apk_files = tree.apk_files
       /\ apk_dirs = tree.apk_dirs
       /\ icon_files = tree.icon_files
       /\ temp_dirs = {}
       /\ aab_converter \in BOOLEAN
       /\ pc = [t \in Tasks \cup TwoDeleters |-> "idle"]
       /\ upl = [t \in Uploaders |-> NoLocals]
       /\ del = [t \in TwoDeleters |-> NoTarget]
       /\ upd = [t \in Updaters |-> NoUpdate]
       /\ result = [t \in Tasks \cup TwoDeleters |-> NoResult]
       /\ convert_calls = {}
       /\ faults = 0
       /\ storage_call = NoStorageCall
       /\ aapt2 = [manifest |-> None, parsed |-> None]
       /\ dl = NoDownload
       /\ auth = [t \in Tasks \cup TwoDeleters |-> Admitted]

NextDeletes ==
    \E d \in TwoDeleters :
        \/ Delete_Start(d)
        \/ DeleteApp_GetApp(d)
        \/ DeleteApp_DeletePackage(d)
        \/ DeleteApp_DeleteRows(d)
        \/ DeleteVersion_GetVersions(d)
        \/ DeleteVersion_DeleteApk(d)
        \/ DeleteVersion_DeleteRow(d)
        \/ DeleteVersion_DeleteIcon(d)
        \/ DeleteVersion_DeleteApp(d)
        \/ Delete_QueryFails(d)

SpecDeletes == InitDeletes /\ [][NextDeletes]_vars

\* ------------------------------------------------------------ the claims
Key(t) == <<upl[t].metadata[1].package_name, upl[t].metadata[1].version_code>>

Returned(t) == pc[t] = "done" /\ result[t].kind # "Cancelled"

Quiescent == \A t \in Tasks : pc[t] \in {"idle", "done"}

\* Nothing was injected and no request was dropped: every error a call
\* returned comes from the calls themselves.
Undisturbed ==
    /\ faults = 0
    /\ \A t \in Uploaders : result[t].kind # "Cancelled"

\* C1: two process_upload calls that inspected the same (package_name,
\* version_code), of a package name the store accepts, with no delete, no
\* injected failure and no dropped request: once both have returned, one
\* returned success and the other VersionExists.
C1_OneSuccessOneVersionExists ==
    \A t1, t2 \in Uploaders :
        (/\ t1 # t2
         /\ Returned(t1) /\ Returned(t2)
         /\ upl[t1].metadata # None /\ upl[t2].metadata # None
         /\ Key(t1) = Key(t2)
         /\ validate_package_name(Key(t1)[1])
         /\ Undisturbed
         /\ \A d \in Deleters : pc[d] = "idle")
        => {result[t1].kind, result[t2].kind} = {"Ok", "VersionExists"}

FileMatches(v) ==
    /\ v.apk_path \in ApkPaths
    /\ apk_files[v.apk_path] # None
    /\ Len(apk_files[v.apk_path][1]) = v.size
    /\ calculate_sha256(apk_files[v.apk_path][1]) = v.sha256

\* C2: with no request in progress, no injected failure and no dropped
\* request, every Version row's apk_key names an existing file whose length
\* is the row's size_bytes and whose SHA-256 is the row's sha256.
C2_VersionRowsHaveTheirFile ==
    (Quiescent /\ Undisturbed) => \A v \in app_versions : FileMatches(v)

\* C3: with no upload or delete in progress, no injected failure and no
\* dropped request, every directory apks/<package>/ and every APK file has a
\* Version row of that package.
C3_NoOrphanFiles ==
    (Quiescent /\ Undisturbed) =>
        /\ \A p \in apk_dirs : \E v \in app_versions : v.package_name = p
        /\ \A f \in ApkPaths :
             apk_files[f] # None => \E v \in app_versions : v.package_name = f[2]

\* C4: with no request in progress, no injected failure and no dropped
\* request, a Package row with icon_key set has its icon file.
C4_IconKeyHasItsFile ==
    (Quiescent /\ Undisturbed) =>
        \A p \in PackageNames :
            (apps[p] # None /\ apps[p][1].icon_path # None)
            => icon_files[IconPath(p)] # None

\* The step in which upload t leaves the catalog transaction with `kind`.
LeavesTransaction(t, kind) ==
    pc[t] = "db" /\ pc'[t] = "done" /\ result'[t].kind = kind

\* C5: when the catalog transaction of an upload fails after save_apk, then
\* at the return of the error the APK file of the upload is gone, the icon
\* file is gone if is_new_app was true, and the icon file is as it was if
\* is_new_app was false.
C5_FailedTransactionCleansUp ==
    [][\A t \in Uploaders :
         LeavesTransaction(t, "DatabaseError") =>
            LET p == Key(t)[1] IN
            /\ apk_files'[ApkPath(p, Key(t)[2])] = None
            /\ upl[t].is_new_app[1] => icon_files'[IconPath(p)] = None
            /\ ~upl[t].is_new_app[1] =>
                  icon_files'[IconPath(p)] = icon_files[IconPath(p)]]_vars

\* C5 witness: an upload to an existing package saved an icon, failed in the
\* transaction and returned; the icon file is still there.
C5_Witness ==
    \E t \in Uploaders :
        /\ pc[t] = "done" /\ result[t].kind = "DatabaseError"
        /\ upl[t].is_new_app = Some(FALSE)
        /\ upl[t].icon_path # None
        /\ icon_files[IconPath(Key(t)[1])] # None
        /\ apk_files[ApkPath(Key(t)[1], Key(t)[2])] = None

\* C6: when an upload is dropped while it waits for the catalog transaction,
\* after save_apk, the APK file is deleted and, if is_new_app was true, the
\* icon file is deleted.
C6_CancelledUploadCleansUp ==
    [][\A t \in Uploaders :
         LeavesTransaction(t, "Cancelled") =>
            LET p == Key(t)[1] IN
            /\ apk_files'[ApkPath(p, Key(t)[2])] = None
            /\ upl[t].is_new_app[1] => icon_files'[IconPath(p)] = None]_vars

\* C7: the temp directory of a process_upload call that has ended, by return
\* or by cancellation, does not exist.
C7_TempDirGoneAfterCall ==
    \A t \in Uploaders : pc[t] = "done" => t \notin temp_dirs

\* C7 witness: calls that created a temp directory have ended by success, by
\* an error return and by cancellation.
C7_Witness ==
    /\ \A t \in Uploaders : pc[t] = "done" /\ upl[t].metadata # None
    /\ \E t \in Uploaders : result[t].kind = "Cancelled"
    /\ \E t \in Uploaders : result[t].kind \in {"Ok", "VersionExists"}

\* C8: a process_upload call whose (package_name, version_code) has a
\* committed Version row when the call reaches its conflict check, and that
\* is neither dropped nor hit by a database failure, returns
\* VersionExists{package_name, version_code}; and no step of the call up to
\* and including the check changes a row or a file under apks/ or icons/.
C8_DuplicateIsRejectedUntouched ==
    [][\A t \in Uploaders :
         (pc[t] \in {"idle", "created", "check"} /\ pc'[t] # pc[t]) =>
            /\ UNCHANGED <<db, fs>>
            /\ (/\ pc[t] = "check"
                /\ \E v \in app_versions :
                      <<v.package_name, v.version_code>> = Key(t)
                /\ faults' = faults
                /\ result'[t].kind # "Cancelled")
               => /\ pc'[t] = "done"
                  /\ result'[t] = [kind |-> "VersionExists",
                                   package_name |-> Key(t)[1],
                                   version_code |-> Key(t)[2]]]_vars

\* C8 witness: with no delete started, one upload committed a version and the
\* other upload of the same version returned VersionExists; the committed
\* file is in place.
C8_Witness ==
    \E t1, t2 \in Uploaders :
        /\ \A d \in Deleters : pc[d] = "idle"
        /\ pc[t1] = "done" /\ result[t1].kind = "Ok"
        /\ pc[t2] = "done" /\ result[t2].kind = "VersionExists"
        /\ Key(t1) = Key(t2)
        /\ upl[t1].apk_data # upl[t2].apk_data
        /\ apk_files[ApkPath(Key(t1)[1], Key(t1)[2])] = upl[t1].apk_data
        /\ \A v \in app_versions : FileMatches(v)

IsAabInput(inp) == detect_file_type(inp.data, inp.file_name) = "Aab"

\* C9: with no converter configured, a call whose input is classified AAB
\* changes no row, no file under apks/ or icons/ and invokes no converter in
\* any of its steps, and its step after the temp directory returns
\* AabNotSupported with the temp directory removed.
C9_AabWithoutConverter ==
    [][\A t \in Uploaders :
         (/\ ~aab_converter
          /\ pc'[t] # pc[t]
          /\ IsAabInput(upl'[t].input[1])) =>
            /\ UNCHANGED <<db, fs, convert_calls>>
            /\ pc[t] = "created" =>
                  /\ pc'[t] = "done"
                  /\ result'[t].kind = "AabNotSupported"
                  /\ t \notin temp_dirs']_vars

\* C9 witness: an AAB upload returned AabNotSupported.
C9_Witness ==
    \E t \in Uploaders :
        /\ ~aab_converter
        /\ pc[t] = "done" /\ result[t].kind = "AabNotSupported"
        /\ IsAabInput(upl[t].input[1])
        /\ t \notin convert_calls /\ t \notin temp_dirs

\* C10: the first step of a call whose input is longer than max_size returns
\* FileTooLarge{max = max_size, actual = length} and creates no temp
\* directory, file or row; and only an input longer than max_size is ever
\* answered FileTooLarge.
C10_SizeGateIsFirstAndExact ==
    [][\A t \in Uploaders :
         /\ (pc[t] = "idle" /\ pc'[t] # "idle"
             /\ Len(upl'[t].input[1].data) > max_size) =>
               /\ pc'[t] = "done"
               /\ result'[t] = [kind |-> "FileTooLarge", max |-> max_size,
                                actual |-> Len(upl'[t].input[1].data)]
               /\ UNCHANGED <<db, fs, temp_dirs>>
         /\ result'[t].kind = "FileTooLarge" =>
               Len(upl'[t].input[1].data) > max_size]_vars

\* C10 witness: an input of max_size + 1 bytes was answered FileTooLarge and
\* an input of exactly max_size bytes was stored.
C10_Witness ==
    \E t1, t2 \in Uploaders :
        /\ pc[t1] = "done" /\ result[t1].kind = "FileTooLarge"
        /\ result[t1].actual = max_size + 1
        /\ pc[t2] = "done" /\ result[t2].kind = "Ok"
        /\ Len(upl[t2].input[1].data) = max_size

PackageIsGone(p) ==
    /\ apps[p] = None
    /\ \A v \in app_versions : v.package_name # p
    /\ p \notin apk_dirs
    /\ \A f \in ApkPaths : f[2] = p => apk_files[f] = None
    /\ icon_files[IconPath(p)] = None

\* C11: when the admin delete-package request for p returns success, with no
\* upload still in progress, no injected failure and no dropped request,
\* there is no Package row of p, no Version row of p, nothing under apks/p/
\* and no icons/p.png.
C11_DeletePackageLeavesNothing ==
    [][\A d \in Deleters :
          (/\ pc[d] = "da_db" /\ pc'[d] = "done"
           /\ result'[d].kind = "NoContent"
           /\ \A t \in Uploaders : pc'[t] \in {"idle", "done"}
           /\ Undisturbed')
          => PackageIsGone(del[d].package_name)']_vars

IsTarget(d, v) ==
    v.package_name = del[d].package_name /\ v.version_code = del[d].version_code

OtherVersions(d, versions) == {v \in versions : ~IsTarget(d, v)}

\* C12: a delete-version request that runs with no other request in progress.
\* It takes the package for a one-version package exactly when the target is
\* its only Version.  When other Versions remain, no step of it changes the
\* Package rows, the icons, the other Version rows or the other APK files, and
\* on success the targeted row and its APK file are gone.  When the target is
\* the only Version, on success the Version row, the Package row, the APK
\* file and the icon file are all gone.
C12_DeleteVersionEffect ==
    [][\A d \in Deleters :
          (del'[d].op = "delete_version" /\ pc[d] # "idle" /\ pc'[d] # pc[d]) =>
          LET p == del[d].package_name
              target == ApkPath(p, del[d].version_code)
              success == pc'[d] = "done" /\ result'[d].kind = "NoContent"
          IN  /\ pc'[d] = "dv_apk" =>
                    del'[d].is_last_version =
                        ({v \in OtherVersions(d, app_versions) :
                              v.package_name = p} = {})
              /\ ~del'[d].is_last_version =>
                    /\ apps' = apps
                    /\ icon_files' = icon_files
                    /\ OtherVersions(d, app_versions')
                           = OtherVersions(d, app_versions)
                    /\ \A f \in ApkPaths \ {target} :
                           apk_files'[f] = apk_files[f]
              /\ success =>
                    /\ \A v \in app_versions' : ~IsTarget(d, v)
                    /\ apk_files'[target] = None
              /\ (success /\ ~del[d].is_last_version) =>
                    /\ apps'[p] # None
                    /\ \E v \in app_versions' : v.package_name = p
              /\ (success /\ del[d].is_last_version) =>
                    /\ apps'[p] = None
                    /\ \A v \in app_versions' : v.package_name # p
                    /\ icon_files'[IconPath(p)] = None]_vars

\* A one-version package with an icon was deleted through delete-version.
C12_Witness ==
    \E d \in Deleters, t \in Uploaders :
        /\ pc[d] = "done" /\ result[d].kind = "NoContent"
        /\ del[d].op = "delete_version" /\ del[d].is_last_version
        /\ pc[t] = "done" /\ result[t].kind = "Ok"
        /\ upl[t].icon_path # None
        /\ Key(t) = <<del[d].package_name, del[d].version_code>>
        /\ apps[del[d].package_name] = None
        /\ icon_files[IconPath(del[d].package_name)] = None

Responses == {dl.served[i] : i \in 1..Len(dl.served)}

Min(a, b) == IF a < b THEN a ELSE b

\* The partial response for the bytes [start, end] of the file.
IsPartial(r, file, start, end) ==
    /\ r.status = 206
    /\ r.body = SubSeq(file, start + 1, end + 1)
    /\ r.content_range =
           Some(<<"b", "y", "t", "e", "s", " ">> \o FormatU64(start)
                \o <<"-">> \o FormatU64(end) \o <<"/">>
                \o FormatU64(Len(file)))
    /\ r.content_length = Some(end - start + 1)

IsNumber(x) == ParseU64(Trim(x)) # None

\* The two bounds of a header of the shape bytes=<a>-<b>, or None.
Bounds(header) ==
    LET range_spec == StripPrefix(header, BytesEq)
        parts == Split(range_spec[1], "-", << >>)
    IN IF range_spec = None \/ Len(parts) # 2 THEN None
       ELSE Some(<<Trim(parts[1]), Trim(parts[2])>>)

SyntacticallyInvalid(header) ==
    \/ Bounds(header) = None
    \/ LET a == Bounds(header)[1][1]
           b == Bounds(header)[1][2]
       IN \/ a # << >> /\ ~IsNumber(a)
          \/ b # << >> /\ ~IsNumber(b)
          \/ a = << >> /\ b = << >>

NotSatisfiable(header, S) ==
    /\ ~SyntacticallyInvalid(header)
    /\ LET a == Bounds(header)[1][1]
           b == Bounds(header)[1][2]
       IN \/ a # << >> /\ ParseU64(a)[1] >= S
          \/ a = << >> /\ ParseU64(b)[1] = 0
          \/ a # << >> /\ b # << >> /\ ParseU64(a)[1] > ParseU64(b)[1]

\* C14: for a file of size S, a Range header whose start is >= S, or that is
\* bytes=-0, or whose start is greater than its end, is answered 416 with an
\* empty body and Content-Range "bytes */S"; a syntactically invalid header
\* (no bytes= prefix, a bound that is not a number, not exactly one dash) is
\* answered 200 with the entire file.
C14_UnsatisfiableAndInvalidRanges ==
    \A e \in Responses :
        (dl.file # None /\ e.range_header # None) =>
        LET file == dl.file[1]
            header == e.range_header[1]
            r == e.response
        IN /\ NotSatisfiable(header, Len(file)) =>
                /\ r.status = 416
                /\ r.body = << >>
                /\ r.content_range =
                       Some(<<"b", "y", "t", "e", "s", " ", "*", "/">>
                            \o FormatU64(Len(file)))
           /\ SyntacticallyInvalid(header) =>
                /\ r.status = 200
                /\ r.body = file

\* C15: for a file of N >= 2 bytes and 0 <= k < N-1, the body served for
\* bytes=0-k followed by the body served for bytes=k+1- is the file; and the
\* 206 body served for bytes=0-(N-1) is the 200 body served without a Range
\* header.
C15_RangesRecomposeTheFile ==
    (dl.file # None /\ Len(dl.served) = 2) =>
    LET file == dl.file[1]
        N == Len(file)
        first == dl.served[1]
        second == dl.served[2]
    IN N >= 2 =>
        /\ \A k \in 0..(N - 2) :
             (/\ first.range_header
                     = Some(RangeHeader(FormatU64(0), FormatU64(k)))
              /\ second.range_header
                     = Some(RangeHeader(FormatU64(k + 1), << >>)))
             => first.response.body \o second.response.body = file
        /\ (/\ first.range_header
                   = Some(RangeHeader(FormatU64(0), FormatU64(N - 1)))
            /\ second.range_header = None)
             => /\ first.response.status = 206
                /\ second.response.status = 200
                /\ first.response.body = second.response.body

\* A 4-byte file was served bytes=0-1 and then bytes=2-.
C15_Witness ==
    /\ dl.file = Some(FileOfSize(4))
    /\ Len(dl.served) = 2
    /\ dl.served[1].range_header = Some(RangeHeader(<<"0">>, <<"1">>))
    /\ dl.served[2].range_header = Some(RangeHeader(<<"2">>, << >>))
    /\ dl.served[1].response.body = <<1, 2>>
    /\ dl.served[2].response.body = <<3, 4>>

\* What an update of the row old with the supplied fields must give.
UpdateWritesSuppliedOnly(old, new, name, description, icon_path) ==
    IF old = None THEN new = None
    ELSE /\ new # None
         /\ new[1].name = (IF name # None THEN name[1] ELSE old[1].name)
         /\ new[1].description = (IF description # None THEN description
                                  ELSE old[1].description)
         /\ new[1].icon_path = (IF icon_path # None THEN icon_path
                                ELSE old[1].icon_path)

\* C18: update_app, applied to the catalog with any choice of supplied
\* fields, gives each supplied field its new value and leaves every omitted
\* field and every other row as they were, and creates no row; and the steps
\* of the admin update request change no row but the named one, in its name
\* and description only.
C18_UpdateWritesSuppliedFieldsOnly ==
    [][/\ \A p \in PackageNames, name \in {None, Some(NewName)},
             description \in {None, Some(NewDescription)} :
           \A icon_path \in {None, Some(IconPath(p))} :
             LET table == update_app(apps, p, name, description, icon_path)
             IN /\ \A q \in PackageNames \ {p} : table[q] = apps[q]
                /\ UpdateWritesSuppliedOnly(apps[p], table[p], name,
                                            description, icon_path)
       /\ \A u \in Updaters :
             (pc[u] # "idle" /\ pc'[u] # pc[u]) =>
                /\ app_versions' = app_versions
                /\ \A q \in PackageNames \ {upd[u].package_name} :
                       apps'[q] = apps[q]
                /\ IF pc[u] = "ua_update" /\ pc'[u] = "ua_fetch"
                   THEN UpdateWritesSuppliedOnly(
                            apps[upd[u].package_name],
                            apps'[upd[u].package_name],
                            upd[u].name, upd[u].description, None)
                   ELSE apps' = apps]_vars

\* An update that supplied only the name renamed a package whose description
\* came from its upload.
C18_Witness ==
    \E u \in Updaters :
        /\ pc[u] = "done" /\ result[u].kind = "Ok"
        /\ upd[u].name = Some(NewName) /\ upd[u].description = None
        /\ apps[upd[u].package_name] # None
        /\ apps[upd[u].package_name][1].name = NewName
        /\ apps[upd[u].package_name][1].description # None

\* The Authorization header carries a token the validator accepts.
CarriesValidToken(authorization) ==
    \E token \in {<<"A">>, <<"U">>} :
        authorization \in {Some(Bearer \o token), Some(BearerLower \o token)}

CarriesAdminToken(authorization) ==
    authorization \in {Some(Bearer \o <<"A">>), Some(BearerLower \o <<"A">>)}

AuthDecided(t) == auth[t].stage \in {"rejected", "admitted"}

\* The handler of a rejected request never runs, and the steps of the auth
\* layer change no row and no file.
RejectedChangesNothing ==
    /\ \A t \in Tasks : auth'[t].stage = "rejected" => pc'[t] = "idle"
    /\ auth' # auth => UNCHANGED <<db, fs>>

KeyFetchFails(t) ==
    /\ auth[t].authorization = Some(Bearer \o <<"K">>)
    /\ ~auth[t].jwks_reachable

TableStatus(kind) ==
    CASE kind = "FileTooLarge" -> 413
      [] kind = "VersionExists" -> 409
      [] kind \in {"InvalidFileType", "StorageError(InvalidPackageName)",
                   "AabNotSupported", "AabError(InvalidAab)"} -> 400
      [] OTHER -> 500

\* C17: the upload route answers every error process_upload returns with
\* the status of the table: 413 for
\* FileTooLarge, 409 for VersionExists, 400 for InvalidFileType,
\* InvalidPackageName, AabNotSupported and InvalidBundle, 500 for the rest.
C17_UploadErrorStatus ==
    \A t \in Uploaders :
        (pc[t] = "done" /\ result[t].kind \in UploadErrors) =>
            AppErrorStatus(upload_app_map_err(result[t].kind))
                = TableStatus(result[t].kind)

\* The paths under the managed tree a call of process_upload has written so
\* far: the APK once save_apk returned, the icon once save_icon returned Ok.
PathsWritten(t) ==
    IF pc[t] \notin {"save_icon", "db"} THEN {}
    ELSE LET m == upl[t].metadata[1] IN
         {ApkPath(m.package_name, m.version_code)}
            \cup (IF pc[t] = "db" /\ upl[t].icon_path # None
                  THEN {upl[t].icon_path[1]} ELSE {})

\* C19: two calls of process_upload that are in progress at the same time
\* and whose (package_name, version_code) differ have no path of the managed
\* tree in common, uploads of two versions of one package with icons included.
C19_DifferentKeysDisjointPaths ==
    \A t1, t2 \in Uploaders :
        (/\ t1 # t2
         /\ PathsWritten(t1) # {}
         /\ PathsWritten(t2) # {}
         /\ Key(t1) # Key(t2)) =>
            PathsWritten(t1) \cap PathsWritten(t2) = {}

\* The names the rule accepts: 1 to 255 bytes, at least one dot, and none of
\* '/', '\', NUL or two dots in a row.
NameIsAcceptable(name) ==
    /\ Len(name) \in 1..255
    /\ \E i \in 1..Len(name) : name[i] = "."
    /\ \A i \in 1..Len(name) : name[i] \notin {"/", "\\", "NUL"}
    /\ \A i \in 1..(Len(name) - 1) : ~(name[i] = "." /\ name[i + 1] = ".")

\* C20: a call of validate_package_name, save_apk, save_icon, delete_apk,
\* delete_icon or delete_package passes the validation exactly when the name
\* is 1 to 255 bytes long, has a dot and has none of '/', '\', '..' or NUL;
\* a rejected call returns InvalidPackageName and leaves every path of the
\* tree as it was.
C20_PackageNameValidation ==
    [][storage_call'.op # "none" =>
          /\ storage_call'.ok <=> NameIsAcceptable(storage_call'.package_name)
          /\ ~storage_call'.ok =>
                /\ storage_call'.err = Some("InvalidPackageName")
                /\ fs' = fs]_vars

\* A populated tree on which delete_package was called with a name that
\* holds a traversal sequence, and was rejected.
C20_Witness ==
    /\ storage_call.op = "delete_package"
    /\ storage_call.package_name = <<"a", ".", ".", "b">>
    /\ ~storage_call.ok
    /\ apk_files[ApkPath(PkgA, 7)] # None
    /\ icon_files[IconPath(PkgA)] # None

\* The classification the rule gives bytes and a file name.
HasSuffix(filename, lower, upper) ==
    /\ Len(filename) >= 4
    /\ \A i \in 1..4 :
          filename[Len(filename) - 4 + i] \in {lower[i], upper[i]}

Classified(data, filename) ==
    LET names == ZipFileNames(data) IN
    IF Len(data) < 2 \/ data[1] # 80 \/ data[2] # 75 THEN "Unknown"
    ELSE IF Len(data) < 4 \/ names = None THEN "Unknown"
    ELSE IF "BundleConfig.pb" \in names[1] THEN "Aab"
    ELSE IF "AndroidManifest.xml" \in names[1] THEN "Apk"
    ELSE IF HasSuffix(filename, <<".", "a", "p", "k">>, <<".", "A", "P", "K">>)
         THEN "Apk"
    ELSE IF HasSuffix(filename, <<".", "a", "a", "b">>, <<".", "A", "A", "B">>)
         THEN "Aab"
    ELSE "Unknown"

\* C21: the type detected for an upload is Unknown when the bytes do not
\* start with 'PK' or are no zip archive, else AAB when the archive holds
\* BundleConfig.pb (with or without AndroidManifest.xml), else APK when it
\* holds AndroidManifest.xml, else what the file name's suffix says in any
\* case of letters; and a call whose input is Unknown returns InvalidFileType.
C21_TypeDetection ==
    \A t \in Uploaders :
        upl[t].input # None =>
            LET inp == upl[t].input[1]
                file_type == Classified(inp.data, inp.file_name)
            IN /\ detect_file_type(inp.data, inp.file_name) = file_type
               /\ (pc[t] = "done" /\ file_type = "Unknown") =>
                     result[t].kind = "InvalidFileType"
               /\ (pc[t] = "done" /\ result[t].kind = "InvalidFileType") =>
                     file_type = "Unknown"

\* An archive with both entries under a name without suffix went on as a
\* bundle, and bytes under 'x.ApK' that are no archive were refused.
C21_Witness ==
    /\ pc[1] = "done"
    /\ upl[1].input # None
    /\ \/ /\ upl[1].input[1].data = Container(9, 1, 4)
          /\ upl[1].input[1].file_name = <<"x", ".", "A", "p", "K">>
          /\ result[1].kind = "InvalidFileType"
       \/ /\ upl[1].input[1].data = Container(3, 2, 4)
          /\ upl[1].input[1].file_name = << >>
          /\ result[1].kind = "Ok"

\* C22: parsing what the inspection tool printed for a manifest fails when
\* the manifest has no package name or no numeric version code; otherwise it
\* succeeds, and a manifest without version name gets the decimal string of
\* its version code, one without SDK version gets min_sdk 21, one without
\* label gets the package name as app name, and one without icon gets no
\* icon path.
C22_ParserDefaults ==
    aapt2.manifest # None =>
        LET m == aapt2.manifest[1]
            parsed == aapt2.parsed[1]
        IN IF m.name = None \/ m.version_code \in {None, Some(<<"x">>)}
           THEN parsed.kind = "ParseError"
           ELSE /\ parsed.kind = "Ok"
                /\ parsed.package_name = m.name[1]
                /\ FormatI64(parsed.version_code) = m.version_code[1]
                /\ m.version_name = None =>
                      parsed.version_name = m.version_code[1]
                /\ m.sdk = None => parsed.min_sdk = 21
                /\ m.label = None => parsed.app_name = m.name[1]
                /\ m.icons = << >> => parsed.icon_path = None

\* Upload a succeeded, delete request d then removed what a had uploaded
\* (its version, or its whole package), and upload b carries the input of a.
Reupload(a, d, b) ==
    /\ a # b
    /\ pc[a] = "done" /\ result[a].kind = "Ok"
    /\ pc[d] = "done" /\ result[d].kind = "NoContent"
    /\ del[d].package_name = result[a].package_name
    /\ del[d].op = "delete_version" =>
          del[d].version_code = result[a].version_code
    /\ upl[b].input = upl[a].input

\* C23: when requests run one after another and a version was uploaded and
\* then deleted, by version or with its package, a further upload of the
\* same artifact does not fail with VersionExists, succeeds unless a
\* database failure or a cancellation stops it, and stores a row with the
\* sha256 and the size the first upload had stored.
C23_ReuploadAfterDelete ==
    [][\A a, b \in Uploaders, d \in Deleters :
          (Reupload(a, d, b) /\ pc[b] \notin {"idle", "done"}
              /\ pc'[b] = "done") =>
             /\ result'[b].kind # "VersionExists"
             /\ (faults' = faults /\ result'[b].kind # "Cancelled") =>
                   result'[b].kind = "Ok"
             /\ result'[b].kind = "Ok" =>
                   \E v \in app_versions' :
                      /\ Key(a) = <<v.package_name, v.version_code>>
                      /\ v.sha256 = calculate_sha256(upl[a].apk_data[1])
                      /\ v.size = Len(upl[a].apk_data[1])]_vars

\* The second upload of the artifact has succeeded after the delete.
C23_Witness ==
    \E a, b \in Uploaders, d \in Deleters :
        /\ Reupload(a, d, b)
        /\ pc[b] = "done" /\ result[b].kind = "Ok"
        /\ del[d].op = "delete_version"
        /\ \E v \in app_versions : Key(a) = <<v.package_name, v.version_code>>

\* C24: with requests run one after another, whatever the point at which
\* an upload, a delete of a version or a delete of a package stops, by a
\* crash or by an error of a step, no Version row is left whose APK file is
\* missing.
C24_NoDanglingRowAtAnyPoint ==
    \A v \in app_versions :
        apk_files[ApkPath(v.package_name, v.version_code)] # None

\* Upload t is about to commit a further version of an existing package,
\* with no override and no icon.
PlainFurtherVersion(t) ==
    /\ pc[t] = "db"
    /\ upl[t].is_new_app = Some(FALSE)
    /\ upl[t].input[1].override_name = None
    /\ upl[t].input[1].override_description = None
    /\ upl[t].metadata[1].icon_data = None
    /\ apps[Key(t)[1]] # None

\* C25: with requests run one after another, the successful upload of a
\* further version to an existing package, with no name override, no
\* description override and no icon, leaves the Package row's name,
\* description and icon path as they were, refreshes its updated_at, adds
\* one Version row to the package, and get_latest_version then returns the
\* Version with the highest version_code.
C25_FurtherVersionKeepsPackage ==
    [][\A t \in Uploaders :
          (PlainFurtherVersion(t) /\ pc'[t] = "done"
              /\ result'[t].kind = "Ok") =>
             LET p == Key(t)[1]
                 old == apps[p][1]
                 latest == get_latest_version(app_versions', p)
             IN /\ apps'[p] # None
                /\ apps'[p][1].name = old.name
                /\ apps'[p][1].description = old.description
                /\ apps'[p][1].icon_path = old.icon_path
                /\ apps'[p][1].updated_at # old.updated_at
                /\ \E v \in app_versions' \ app_versions :
                      /\ app_versions' = app_versions \cup {v}
                      /\ <<v.package_name, v.version_code>> = Key(t)
                /\ latest # None
                /\ \A v \in app_versions' :
                      v.package_name = p =>
                         v.version_code <= latest[1].version_code]_vars

\* Upload t lost its icon: the inspection could not extract the icon its
\* APK names, or save_icon failed on the icon the inspection gave.
IconFailed(t) ==
    /\ upl[t].metadata # None
    /\ \/ IconEntry(upl[t].apk_data[1]) = "broken"
       \/ /\ pc[t] = "db"
          /\ upl[t].metadata[1].icon_data # None
          /\ upl[t].icon_path = None

\* C26: a failure of the icon never fails an upload.  The inspection of an
\* APK whose icon cannot be extracted gives metadata without icon, the step
\* that saves the icon never ends the call, and when requests run one after
\* another a call that lost its icon and is not stopped by a database
\* failure or a cancellation succeeds: a new Package is stored without icon
\* path and an existing Package keeps the one it had.
C26_IconFailureIsNotFatal ==
    [][\A t \in Uploaders :
          /\ (pc[t] = "created" /\ pc'[t] # "created"
                 /\ result'[t].kind # "Cancelled"
                 /\ detect_file_type(upl[t].input[1].data,
                                     upl[t].input[1].file_name) = "Apk"
                 /\ IconEntry(upl[t].input[1].data) = "broken") =>
                /\ pc'[t] = "check"
                /\ upl'[t].metadata[1].icon_data = None
          /\ (pc[t] = "save_icon" /\ pc'[t] # "save_icon") => pc'[t] = "db"
          /\ (IconFailed(t) /\ pc[t] = "db" /\ pc'[t] = "done") =>
                LET p == Key(t)[1] IN
                /\ (faults' = faults /\ result'[t].kind # "Cancelled") =>
                      result'[t].kind = "Ok"
                /\ result'[t].kind = "Ok" =>
                      /\ apps'[p] # None
                      /\ apps'[p][1].icon_path =
                            (IF upl[t].is_new_app[1] THEN None
                             ELSE apps[p][1].icon_path)]_vars

\* An upload to a package that has an icon succeeded although save_icon
\* had failed for it.
C26_Witness ==
    \E t \in Uploaders :
        /\ pc[t] = "done" /\ result[t].kind = "Ok"
        /\ upl[t].metadata[1].icon_data # None
        /\ upl[t].icon_path = None
        /\ upl[t].is_new_app = Some(FALSE)
        /\ apps[Key(t)[1]] # None
        /\ apps[Key(t)[1]][1].icon_path # None

\* C27: once the delete requests have completed, with no injected failure,
\* a package that has no Version row left has no Package row and no icon
\* file either, also when two requests deleted its two versions at the same
\* time.
C27_NoPackageWithoutVersions ==
    (faults = 0 /\ \A d \in DOMAIN del : pc[d] \in {"idle", "done"}) =>
        \A p \in PackageNames :
            (\A v \in app_versions : v.package_name # p) =>
                apps[p] = None /\ icon_files[IconPath(p)] = None

\* C28: two uploads of different versions of one package that the catalog
\* does not hold, run at the same time with no delete, no injected failure
\* and no dropped request: once both have returned, both succeeded and the
\* catalog has one Package row and the two Version rows.
C28_TwoVersionsOfNewPackage ==
    \A t1, t2 \in Uploaders :
        (/\ t1 # t2
         /\ Returned(t1) /\ Returned(t2)
         /\ upl[t1].metadata # None /\ upl[t2].metadata # None
         /\ Key(t1)[1] = Key(t2)[1]
         /\ Key(t1)[2] # Key(t2)[2]
         /\ validate_package_name(Key(t1)[1])
         /\ Undisturbed
         /\ \A d \in Deleters : pc[d] = "idle") =>
            /\ result[t1].kind = "Ok" /\ result[t2].kind = "Ok"
            /\ apps[Key(t1)[1]] # None
            /\ \A t \in {t1, t2} :
                  \E v \in app_versions :
                     <<v.package_name, v.version_code>> = Key(t)

\* C29: for every file size, the empty file included, and every Range header
\* served, parse_range_header returns an error (InvalidFormat or
\* NotSatisfiable) or a range with start <= end <= file_size - 1; it never
\* takes file_size - 1 of an empty file, which panics or wraps.
C29_RangeWithinFile ==
    \A e \in Responses :
        (dl.file # None /\ e.range_header # None) =>
        LET file_size == Len(dl.file[1])
            parsed == parse_range_header(e.range_header[1], file_size,
                                         dl.release)
        IN \/ parsed.kind \in {"InvalidFormat", "NotSatisfiable"}
           \/ /\ parsed.kind = "Ok"
              /\ parsed.start <= parsed.end
              /\ parsed.end <= file_size - 1

\* C30: with requests run one after another, a successful upload returns
\* the display name that the Package row then holds, for a new package and
\* for an existing package uploaded without a name override.
C30_ReturnedNameIsStoredName ==
    [][\A t \in Uploaders :
          (/\ pc[t] = "db" /\ pc'[t] = "done"
           /\ result'[t].kind = "Ok"
           /\ \/ upl[t].is_new_app = Some(TRUE)
              \/ upl[t].input[1].override_name = None) =>
             /\ apps'[Key(t)[1]] # None
             /\ apps'[Key(t)[1]][1].name = result'[t].app_name]_vars

====
